---------------------------- MODULE Spec2Model ----------------------------
(***************************************************************************)
(* A model of taggu's hierarchical metadata resolution: the library        *)
(* context (path normalisation, directory listing, fuzzy lookup), the      *)
(* discovery context (meta files of an item, items of a meta file), the    *)
(* meta cacher and the query context (yield_field, yield_parent_fields,    *)
(* yield_child_fields).                                                    *)
(*                                                                         *)
(* A path is the sequence of its parts (pathlib's Path.parts): the root    *)
(* '.' is <<>>, an absolute path starts with "/".  The file system is a    *)
(* record: the directories, the item files (files that pass the media item *)
(* filter) and the meta files with their YAML documents.  A generator is   *)
(* modelled by the record of what it yielded before it ended and of the    *)
(* exception that ended it ("none" for a normal end).                      *)
(***************************************************************************)
EXTENDS Integers, Sequences, FiniteSets, TLC

VARIABLES fs, useCache, cache, ensured, query, last

vars == <<fs, useCache, cache, ensured, query, last>>

-----------------------------------------------------------------------------
(* Configuration of the library context (gen_library_ctx).                 *)

RootDir == <<"/", "lib">>
SELF_META_FN == "taggu_self.yml"
ITEM_META_FN == "taggu_item.yml"

(* The strings of the model, spelled out, so that prefixes are computed.   *)
Chars(s) ==
    CASE s = "A1" -> <<"A", "1">>
      [] s = "A2" -> <<"A", "2">>
      [] s = "T1" -> <<"T", "1">>
      [] s = "A" -> <<"A">>
      [] s = "T" -> <<"T">>
      [] s = "t" -> <<"t">>
      [] s = "" -> <<>>
      [] s = "." -> <<".">>
      [] s = ".." -> <<".", ".">>
      [] s = "/" -> <<"/">>
      [] s = "A1/" -> <<"A", "1", "/">>
      [] s = "A?" -> <<"A", "?">>
      [] s = "*1" -> <<"*", "1">>
      [] s = "t1" -> <<"t", "1">>
      [] s = "taggu" -> <<"t", "a", "g", "g", "u">>
      [] s = SELF_META_FN -> <<"t", "a", "g", "g", "u", "_", "s", "e", "l", "f", ".", "y", "m", "l">>
      [] s = ITEM_META_FN -> <<"t", "a", "g", "g", "u", "_", "i", "t", "e", "m", ".", "y", "m", "l">>
      [] OTHER -> <<s>>

(* The order of sorted() on names, media_item_sort_key being None.         *)
NameOrder == <<"A1", "A2", "T1", "t1", ITEM_META_FN, SELF_META_FN>>

None == [t |-> "None"]

-----------------------------------------------------------------------------
(* Sequences.                                                              *)

IsPrefixOf(s, t) == Len(s) <= Len(t) /\ SubSeq(t, 1, Len(s)) = s

Range(s) == {s[k] : k \in 1..Len(s)}

(* The one element of a singleton set: x \in {e} in a set constructor     *)
(* gives x the value of e, computed once, as an assignment to a local      *)
(* variable does.                                                          *)
The(S) == CHOOSE x \in S : TRUE

RECURSIVE Concat(_)
Concat(ss) == IF ss = <<>> THEN <<>> ELSE Head(ss) \o Concat(Tail(ss))

-----------------------------------------------------------------------------
(* pathlib.                                                                *)

IsAbsolute(p) == Len(p) > 0 /\ p[1] = "/"

PathName(p) == IF p = <<>> \/ p = <<"/">> THEN "" ELSE p[Len(p)]

PathParent(p) == IF p = <<>> \/ p = <<"/">> THEN p ELSE SubSeq(p, 1, Len(p) - 1)

(* Path.parents: the proper ancestors, the nearest first.                  *)
PathParents(p) ==
    LET n == IF IsAbsolute(p) THEN Len(p) - 1 ELSE Len(p)
    IN  [k \in 1..n |-> SubSeq(p, 1, Len(p) - k)]

(* The join alone, with no segment collapsed.                              *)
JoinOnly(acc, rest) == acc \o rest

(* A collapse of the first '..' only.                                      *)
RECURSIVE CollapseOnce(_, _)
CollapseOnce(acc, rest) ==
    IF rest = <<>> THEN acc
    ELSE IF Head(rest) = ".." /\ Len(acc) > 1
         THEN SubSeq(acc, 1, Len(acc) - 1) \o Tail(rest)
         ELSE CollapseOnce(Append(acc, Head(rest)), Tail(rest))

(* os.path.normpath of an absolute path: acc is the collapsed prefix.      *)
RECURSIVE NormPath(_, _)
NormPath(acc, rest) ==
    IF rest = <<>> THEN acc
    ELSE LET s == Head(rest)
         IN  IF s = "." THEN NormPath(acc, Tail(rest))
             ELSE IF s = ".."
                  THEN IF Len(acc) > 1
                       THEN NormPath(SubSeq(acc, 1, Len(acc) - 1), Tail(rest))
                       ELSE NormPath(acc, Tail(rest))
                  ELSE NormPath(Append(acc, s), Tail(rest))

-----------------------------------------------------------------------------
(* Library context.                                                        *)

(* co_norm: the normalised relative path and the absolute path, or the     *)
(* exception raised.                                                       *)
co_norm(rel_sub_path) ==
    IF IsAbsolute(rel_sub_path)
    THEN [err |-> "AbsoluteSubpath", rel |-> <<>>, abs |-> <<>>]
    ELSE LET abs_sub_path == NormPath(<<"/">>, Tail(RootDir) \o rel_sub_path)
         IN  IF IsPrefixOf(RootDir, abs_sub_path)
             THEN [err |-> "none",
                   rel |-> SubSeq(abs_sub_path, Len(RootDir) + 1, Len(abs_sub_path)),
                   abs |-> abs_sub_path]
             ELSE [err |-> "EscapingSubpath", rel |-> <<>>, abs |-> <<>>]

IsDir(f, rel) == rel \in f.dirs

IsFile(f, rel) == rel \in f.files \/ rel \in (DOMAIN f.meta)

(* The names of all the entries of a directory (iterdir, glob).            *)
EntryNames(f, dir) ==
    LET all == f.dirs \cup f.files \cup (DOMAIN f.meta)
    IN  {p[Len(p)] : p \in {q \in all : q # <<>> /\ PathParent(q) = dir}}

(* The media item filter: directories, and files with the item suffix.     *)
media_item_filter(f, rel) == rel \in f.dirs \/ rel \in f.files

SortNames(S) == SelectSeq(NameOrder, LAMBDA n : n \in S)

yield_contains_dir(f, rel_sub_path) ==
    LET cn == co_norm(rel_sub_path)
    IN  IF cn.err # "none" THEN [dirs |-> <<>>, err |-> cn.err]
        ELSE IF IsDir(f, cn.rel) THEN [dirs |-> <<cn.rel>>, err |-> "none"]
        ELSE [dirs |-> <<>>, err |-> "none"]

(* The parent of the path, for the root as well.                           *)
parent_of_any(f, rel_sub_path) == [dirs |-> <<PathParent(rel_sub_path)>>, err |-> "none"]

yield_siblings_dir(f, rel_sub_path) ==
    LET par_dir == PathParent(rel_sub_path)
    IN  IF par_dir # rel_sub_path THEN [dirs |-> <<par_dir>>, err |-> "none"]
        ELSE [dirs |-> <<>>, err |-> "none"]

(* The match of a name against a glob pattern (fnmatch): '*' stands for    *)
(* any run of characters, '?' for any one character, every other character *)
(* for itself.                                                             *)
RECURSIVE FnMatch(_, _)
FnMatch(pat, cs) ==
    IF pat = <<>> THEN cs = <<>>
    ELSE IF Head(pat) = "*"
         THEN FnMatch(Tail(pat), cs) \/ (cs # <<>> /\ FnMatch(pat, Tail(cs)))
         ELSE /\ cs # <<>>
              /\ Head(pat) = "?" \/ Head(pat) = Head(cs)
              /\ FnMatch(Tail(pat), Tail(cs))

(* The glob of f'{prefix_item_name}*' in the directory: every entry that    *)
(* matches the pattern, eligible or not.                                   *)
fuzzy_name_lookup(f, rel_sub_dir_path, prefix_item_name) ==
    LET cn == co_norm(rel_sub_dir_path)
        results == {n \in EntryNames(f, cn.rel) :
                        FnMatch(Append(Chars(prefix_item_name), "*"), Chars(n))}
    IN  IF cn.err # "none" THEN [err |-> cn.err, name |-> "", found |-> 0]
        ELSE IF Cardinality(results) # 1
             THEN [err |-> "NonUniqueFuzzyFileLookup", name |-> "",
                   found |-> Cardinality(results)]
             ELSE [err |-> "none", name |-> CHOOSE n \in results : TRUE, found |-> 1]

(* item_names_in_dir: the eligible names; nothing for what is no directory.*)
item_names_in_dir(f, rel_sub_dir_path) ==
    LET cn == co_norm(rel_sub_dir_path)
    IN  IF cn.err # "none" THEN [err |-> cn.err, names |-> {}]
        ELSE IF ~IsDir(f, cn.rel) THEN [err |-> "none", names |-> {}]
        ELSE [err |-> "none",
              names |-> {n \in EntryNames(f, cn.rel) :
                             media_item_filter(f, Append(cn.rel, n))}]

sorted_item_names_in_dir(f, rel_sub_dir_path) ==
    LET r == item_names_in_dir(f, rel_sub_dir_path)
    IN  [err |-> r.err, names |-> SortNames(r.names)]

(* helpers.is_valid_item_name, by os.path.split: the tail is what follows  *)
(* the last separator, the head what precedes it.                          *)
is_valid_item_name(item_file_name) ==
    LET cs == Chars(item_file_name)
        seps == {k \in 1..Len(cs) : cs[k] = "/"}
        tail == IF seps = {} THEN cs
                ELSE SubSeq(cs, (CHOOSE k \in seps : \A j \in seps : j <= k) + 1, Len(cs))
        headEmpty == seps = {}
    IN  /\ tail # <<>>
        /\ headEmpty
        /\ tail # <<".", ".">>
        /\ tail # <<".">>

-----------------------------------------------------------------------------
(* YAML.  A document on disk is a tree of nodes: a scalar with its text, a *)
(* sequence, a mapping (its entries in order, the keys being texts) or the *)
(* empty document.  yaml.BaseLoader constructs every scalar as the string  *)
(* of its text, and the empty document as None.                            *)

StrVal(s) == [t |-> "str", s |-> s]

RECURSIVE ConstructNode(_)
ConstructNode(node) ==
    CASE node.t = "scalar" -> StrVal(node.text)
      [] node.t = "seq" ->
            [t |-> "seq", items |-> [k \in 1..Len(node.items) |-> ConstructNode(node.items[k])]]
      [] node.t = "map" ->
            [t |-> "map",
             entries |-> [k \in 1..Len(node.entries) |->
                            <<node.entries[k][1], ConstructNode(node.entries[k][2])>>]]
      [] OTHER -> None

read_yaml_file(f, rel_yaml_file_path) == ConstructNode(f.meta[rel_yaml_file_path])

(* A Python str is a collections.abc.Sequence of its characters.           *)
SequenceItems(v) ==
    IF v.t = "seq" THEN v.items
    ELSE [k \in 1..Len(Chars(v.s)) |-> StrVal(Chars(v.s)[k])]

IsPySequence(v) == v.t \in {"seq", "str"}

IsPyMapping(v) == v.t = "map"

-----------------------------------------------------------------------------
(* The multiplexers of the two meta sources.                               *)

(* A zip that gives nothing when the two counts differ.                    *)
ZipStrict(dir, names, blocks) ==
    IF Len(names) # Len(blocks) THEN <<>>
    ELSE [k \in 1..Len(names) |-> <<Append(dir, names[k]), blocks[k]>>]

(* zip(sorted_item_names, yaml_data)                                       *)
ZipPairs(dir, names, blocks) ==
    LET n == IF Len(names) < Len(blocks) THEN Len(names) ELSE Len(blocks)
    IN  [k \in 1..n |-> <<Append(dir, names[k]), blocks[k]>>]

(* The loop over the items of a mapping: processed is processed_item_names,*)
(* acc the pairs yielded so far.                                           *)
RECURSIVE MappedPairs(_, _, _, _, _, _)
MappedPairs(f, dir, item_names, entries, processed, acc) ==
    IF entries = <<>> THEN [pairs |-> acc, err |-> "none"]
    ELSE LET key == Head(entries)[1]
             meta_block == Head(entries)[2]
             lk == fuzzy_name_lookup(f, dir, key)
         IN  IF ~is_valid_item_name(key)
             THEN MappedPairs(f, dir, item_names, Tail(entries), processed, acc)
             ELSE IF lk.err # "none" THEN [pairs |-> acc, err |-> lk.err]
             ELSE IF lk.name \in processed \/ lk.name \notin item_names
             THEN MappedPairs(f, dir, item_names, Tail(entries), processed, acc)
             ELSE MappedPairs(f, dir, item_names, Tail(entries),
                              processed \cup {lk.name},
                              Append(acc, <<Append(dir, lk.name), meta_block>>))

yield_item_meta_pairs(f, yaml_data, rel_sub_dir_path) ==
    LET cn == co_norm(rel_sub_dir_path)
        names == item_names_in_dir(f, cn.rel)
    IN  IF cn.err # "none" THEN [pairs |-> <<>>, err |-> cn.err]
        ELSE IF IsPySequence(yaml_data)
             THEN [pairs |-> ZipPairs(cn.rel, SortNames(names.names), SequenceItems(yaml_data)),
                   err |-> "none"]
        ELSE IF IsPyMapping(yaml_data)
             THEN MappedPairs(f, cn.rel, names.names, yaml_data.entries, {}, <<>>)
        ELSE [pairs |-> <<>>, err |-> "none"]

yield_self_meta_pairs(f, yaml_data, rel_sub_dir_path) ==
    IF IsPyMapping(yaml_data)
    THEN [pairs |-> <<<<rel_sub_dir_path, yaml_data>>>>, err |-> "none"]
    ELSE [pairs |-> <<>>, err |-> "none"]

(* The sources in the other order: the item source before the self source. *)
item_first_meta_source_specs ==
    << [meta_file_name |-> ITEM_META_FN, role |-> "item"],
       [meta_file_name |-> SELF_META_FN, role |-> "self"] >>

(* yield_meta_source_specs: the self source before the item source.        *)
yield_meta_source_specs ==
    << [meta_file_name |-> SELF_META_FN, role |-> "self"],
       [meta_file_name |-> ITEM_META_FN, role |-> "item"] >>

dir_getter(meta_spec, f, rel_item_path) ==
    IF meta_spec.role = "self" THEN yield_contains_dir(f, rel_item_path)
    ELSE yield_siblings_dir(f, rel_item_path)

multiplexer(meta_spec, f, yaml_data, rel_sub_dir_path) ==
    IF meta_spec.role = "self" THEN yield_self_meta_pairs(f, yaml_data, rel_sub_dir_path)
    ELSE yield_item_meta_pairs(f, yaml_data, rel_sub_dir_path)

-----------------------------------------------------------------------------
(* Discovery context.                                                      *)

(* What one meta source contributes to meta_files_from_item.               *)
MetaFilesOfSpec(meta_spec, f, rel_item_path) ==
    LET got == dir_getter(meta_spec, f, rel_item_path)
    IN  IF got.err # "none" THEN [paths |-> <<>>, err |-> got.err]
        ELSE IF got.dirs = <<>> THEN [paths |-> <<>>, err |-> "none"]
        ELSE LET cn == co_norm(got.dirs[1])
                 rel_meta_path == Append(cn.rel, meta_spec.meta_file_name)
             IN  IF cn.err # "none" THEN [paths |-> <<>>, err |-> cn.err]
                 ELSE IF IsFile(f, rel_meta_path)
                      THEN [paths |-> <<rel_meta_path>>, err |-> "none"]
                      ELSE [paths |-> <<>>, err |-> "none"]

(* meta_files_from_item: the paths yielded, in order, and the exception    *)
(* that ended the generator after them.                                    *)
RECURSIVE MetaFilesFromSpecs(_, _, _)
MetaFilesFromSpecs(meta_specs, f, rel_item_path) ==
    IF meta_specs = <<>> THEN [paths |-> <<>>, err |-> "none"]
    ELSE LET one == MetaFilesOfSpec(Head(meta_specs), f, rel_item_path)
             rest == MetaFilesFromSpecs(Tail(meta_specs), f, rel_item_path)
         IN  IF one.err # "none" THEN one
             ELSE [paths |-> one.paths \o rest.paths, err |-> rest.err]

meta_files_from_item(f, rel_item_path) ==
    MetaFilesFromSpecs(yield_meta_source_specs, f, rel_item_path)

(* items_from_meta_file: the (item path, metadata) pairs yielded, and the  *)
(* exception that ended the generator after them.                          *)
items_from_meta_file(f, rel_meta_path) ==
    LET cn == co_norm(rel_meta_path)
        rel_containing_dir == PathParent(cn.rel)
        meta_file_name == PathName(cn.rel)
        matching == SelectSeq(yield_meta_source_specs,
                              LAMBDA ms : ms.meta_file_name = meta_file_name)
    IN  IF cn.err # "none" THEN [pairs |-> <<>>, err |-> cn.err]
        ELSE IF ~IsFile(f, cn.rel) THEN [pairs |-> <<>>, err |-> "none"]
        ELSE IF matching = <<>> THEN [pairs |-> <<>>, err |-> "none"]
        ELSE multiplexer(matching[1], f, read_yaml_file(f, cn.rel), rel_containing_dir)

-----------------------------------------------------------------------------
(* Meta cacher.  The cache maps a meta file path to the mapping from item  *)
(* paths to metadata; the empty cache is the function of empty domain.     *)

EmptyCache == <<>>

CacheWithout(mfc, keys) == [k \in (DOMAIN mfc) \ keys |-> mfc[k]]

CachePut(mfc, key, val) ==
    [k \in (DOMAIN mfc) \cup {key} |-> IF k = key THEN val ELSE mfc[k]]

(* The dict filled by mfc[rel_meta_path][rel_item_path] = metadata over    *)
(* the pairs: for a path yielded twice the later metadata stays.           *)
PairsToDict(pairs) ==
    [i \in {pairs[k][1] : k \in 1..Len(pairs)} |->
        pairs[CHOOSE k \in 1..Len(pairs) :
                /\ pairs[k][1] = i
                /\ \A j \in 1..Len(pairs) : pairs[j][1] = i => j <= k][2]]

(* One round of cache_meta_files without its clear_meta_file: the pairs of *)
(* the parse are written over the record already held.                     *)
CacheOneMetaFileOver(mfc, f, rel_meta_path, force) ==
    IF ~force /\ rel_meta_path \in DOMAIN mfc
    THEN [cache |-> mfc, parsed |-> <<>>, err |-> "none"]
    ELSE The({ [cache |-> IF got.pairs = <<>> THEN mfc
                          ELSE CachePut(mfc, rel_meta_path,
                                        [i \in DOMAIN PairsToDict(got.pairs) \cup
                                               (IF rel_meta_path \in DOMAIN mfc
                                                THEN DOMAIN mfc[rel_meta_path] ELSE {}) |->
                                            IF i \in DOMAIN PairsToDict(got.pairs)
                                            THEN PairsToDict(got.pairs)[i]
                                            ELSE mfc[rel_meta_path][i]]),
                parsed |-> <<rel_meta_path>>,
                err |-> got.err] :
               got \in {items_from_meta_file(f, rel_meta_path)} })

(* One round of the loop of cache_meta_files.  An entry is made at the     *)
(* first pair only: a meta file that yields no pair gets no entry.         *)
CacheOneMetaFile(mfc, f, rel_meta_path, force) ==
    IF ~force /\ rel_meta_path \in DOMAIN mfc
    THEN [cache |-> mfc, parsed |-> <<>>, err |-> "none"]
    ELSE The({ [cache |-> IF got.pairs = <<>> THEN CacheWithout(mfc, {rel_meta_path})
                          ELSE CachePut(CacheWithout(mfc, {rel_meta_path}), rel_meta_path,
                                        PairsToDict(got.pairs)),
                parsed |-> <<rel_meta_path>>,
                err |-> got.err] :
               got \in {items_from_meta_file(f, rel_meta_path)} })

(* cache_meta_files over the paths an iterable yields before it ends with  *)
(* gen_err: the cache after, the meta files parsed (in order), those gone  *)
(* through without an exception, and the exception that ended the call.    *)
RECURSIVE CacheMetaFilesLoop(_, _, _, _, _, _, _)
CacheMetaFilesLoop(mfc, f, rel_meta_paths, gen_err, force, parsed, done) ==
    IF rel_meta_paths = <<>>
    THEN [cache |-> mfc, parsed |-> parsed, done |-> done, err |-> gen_err]
    ELSE The({ IF one.err # "none"
               THEN [cache |-> one.cache, parsed |-> parsed \o one.parsed, done |-> done,
                     err |-> one.err]
               ELSE CacheMetaFilesLoop(one.cache, f, Tail(rel_meta_paths), gen_err, force,
                                       parsed \o one.parsed,
                                       done \cup {Head(rel_meta_paths)}) :
               one \in {CacheOneMetaFile(mfc, f, Head(rel_meta_paths), force)} })

cache_meta_files(mfc, f, rel_meta_paths, force) ==
    CacheMetaFilesLoop(mfc, f, rel_meta_paths, "none", force, <<>>, {})

cache_meta_file(mfc, f, rel_meta_path, force) ==
    cache_meta_files(mfc, f, <<rel_meta_path>>, force)

(* func() of cache_item_files and clear_item_files: the meta files of the  *)
(* items, in order, up to the first exception.                             *)
RECURSIVE MetaFilesFromItems(_, _)
MetaFilesFromItems(f, rel_item_paths) ==
    IF rel_item_paths = <<>> THEN [paths |-> <<>>, err |-> "none"]
    ELSE LET one == meta_files_from_item(f, Head(rel_item_paths))
             rest == MetaFilesFromItems(f, Tail(rel_item_paths))
         IN  IF one.err # "none" THEN one
             ELSE [paths |-> one.paths \o rest.paths, err |-> rest.err]

cache_item_files(mfc, f, rel_item_paths, force) ==
    The({ CacheMetaFilesLoop(mfc, f, gen.paths, gen.err, force, <<>>, {}) :
          gen \in {MetaFilesFromItems(f, rel_item_paths)} })

(* clear_meta_files that drops the whole cache, whatever the paths.        *)
clear_meta_files_all(mfc, rel_meta_paths) == [cache |-> EmptyCache, err |-> "none"]

clear_meta_files(mfc, rel_meta_paths) ==
    [cache |-> CacheWithout(mfc, Range(rel_meta_paths)), err |-> "none"]

clear_item_files(mfc, f, rel_item_paths) ==
    The({ [cache |-> CacheWithout(mfc, Range(gen.paths)), err |-> gen.err] :
          gen \in {MetaFilesFromItems(f, rel_item_paths)} })

clear_all(mfc) == [cache |-> EmptyCache, err |-> "none"]

get_meta_file(mfc, rel_meta_path) ==
    IF rel_meta_path \in DOMAIN mfc
    THEN [err |-> "none", record |-> mfc[rel_meta_path]]
    ELSE [err |-> "KeyError", record |-> <<>>]

contains_meta_file(mfc, rel_meta_path) == rel_meta_path \in DOMAIN mfc

(* The loop of get_item_file and contains_item_file over the candidate     *)
(* meta files of an item: the first cached record that holds the item.     *)
RECURSIVE FirstCachedSource(_, _, _)
FirstCachedSource(mfc, rel_meta_paths, rel_item_path) ==
    IF rel_meta_paths = <<>> THEN [found |-> FALSE, block |-> None]
    ELSE IF /\ contains_meta_file(mfc, Head(rel_meta_paths))
            /\ rel_item_path \in DOMAIN mfc[Head(rel_meta_paths)]
         THEN [found |-> TRUE, block |-> mfc[Head(rel_meta_paths)][rel_item_path]]
         ELSE FirstCachedSource(mfc, Tail(rel_meta_paths), rel_item_path)

(* The same loop without its return: the last cached record that holds the *)
(* item.                                                                   *)
LastCachedSource(mfc, rel_meta_paths, rel_item_path) ==
    FirstCachedSource(mfc, [k \in 1..Len(rel_meta_paths) |->
                                rel_meta_paths[Len(rel_meta_paths) + 1 - k]],
                      rel_item_path)

(* get_item_file with the last source in place of the first.               *)
get_item_file_last(mfc, f, rel_item_path) ==
    The({ The({ IF hit.found THEN [err |-> "none", block |-> hit.block]
                ELSE IF gen.err # "none" THEN [err |-> gen.err, block |-> None]
                ELSE [err |-> "KeyError", block |-> None] :
                hit \in {LastCachedSource(mfc, gen.paths, rel_item_path)} }) :
          gen \in {meta_files_from_item(f, rel_item_path)} })

(* get_item_file: the block of the item in the first cached candidate that *)
(* holds it; the closing mc[rel_item_path] raises KeyError when there is   *)
(* none.  An exception of meta_files_from_item ends the loop.              *)
get_item_file(mfc, f, rel_item_path) ==
    The({ The({ IF hit.found THEN [err |-> "none", block |-> hit.block]
                ELSE IF gen.err # "none" THEN [err |-> gen.err, block |-> None]
                ELSE [err |-> "KeyError", block |-> None] :
                hit \in {FirstCachedSource(mfc, gen.paths, rel_item_path)} }) :
          gen \in {meta_files_from_item(f, rel_item_path)} })

contains_item_file(mfc, f, rel_item_path) ==
    The({ The({ IF hit.found THEN [err |-> "none", found |-> TRUE]
                ELSE [err |-> gen.err, found |-> FALSE] :
                hit \in {FirstCachedSource(mfc, gen.paths, rel_item_path)} }) :
          gen \in {meta_files_from_item(f, rel_item_path)} })

-----------------------------------------------------------------------------
(* Query context.  An optional argument is a record: some tells whether it *)
(* is given (not None).                                                    *)

Nothing == [some |-> FALSE]

Some(v) == [some |-> TRUE, v |-> v]

(* The label extractor the context is configured with: the leading run of  *)
(* capital letters of the name, None when there is none.                   *)
label_extractor(rel_item_path) ==
    LET cs == Chars(PathName(rel_item_path))
        caps == {"A", "T"}
        run == {k \in 0..Len(cs) : \A j \in 1..k : cs[j] \in caps}
        n == CHOOSE k \in run : \A j \in run : j <= k
    IN  IF n = 0 THEN Nothing ELSE Some(SubSeq(cs, 1, n))

(* helpers.recursive_flatten is called by yield_field and defined nowhere  *)
(* in the sources: nested sequences are expanded into their scalars.       *)
RECURSIVE recursive_flatten(_)
recursive_flatten(items) ==
    Concat([k \in 1..Len(items) |->
              IF items[k].t = "seq" THEN recursive_flatten(items[k].items)
              ELSE <<items[k]>>])

(* field_name in meta_dict, and meta_dict[field_name].                     *)
HasField(meta_dict, field_name) ==
    /\ IsPyMapping(meta_dict)
    /\ \E k \in 1..Len(meta_dict.entries) : meta_dict.entries[k][1] = field_name

GetField(meta_dict, field_name) ==
    meta_dict.entries[CHOOSE k \in 1..Len(meta_dict.entries) :
                          meta_dict.entries[k][1] = field_name][2]

(* The values yield_field yields for a field value: skip tells that the    *)
(* value has an unexpected type and the next meta file is tried.           *)
FieldValues(field_val, recursive) ==
    CASE field_val.t = "None" -> [vals |-> <<None>>, err |-> "none", skip |-> FALSE]
      [] field_val.t = "str" -> [vals |-> <<field_val>>, err |-> "none", skip |-> FALSE]
      [] field_val.t = "seq" ->
            [vals |-> IF recursive THEN recursive_flatten(field_val.items) ELSE field_val.items,
             err |-> "none", skip |-> FALSE]
      [] field_val.t = "map" -> [vals |-> <<>>, err |-> "AttributeError", skip |-> FALSE]
      [] OTHER -> [vals |-> <<>>, err |-> "none", skip |-> TRUE]

(* No label test: no item is excluded.                                     *)
NoLabelTest(rel_item_path, labels) == FALSE

(* The label test at the head of yield_field.                              *)
LabelExcluded(rel_item_path, labels) ==
    /\ labels.some
    /\ LET extracted_label == label_extractor(rel_item_path)
       IN  ~(extracted_label.some /\ extracted_label.v \in labels.v)

(* temp_cache for a meta file: through the meta cacher, or by a parse of   *)
(* the file when the context has no cacher.                                *)
TempCache(mfc, f, use_cache, rel_meta_path) ==
    IF use_cache
    THEN The({ The({ [cache |-> c.cache, parsed |-> c.parsed, done |-> c.done,
                      err |-> IF c.err # "none" THEN c.err ELSE g.err,
                      record |-> g.record] :
                     g \in {get_meta_file(c.cache, rel_meta_path)} }) :
               c \in {cache_meta_file(mfc, f, rel_meta_path, FALSE)} })
    ELSE The({ [cache |-> mfc, parsed |-> <<rel_meta_path>>, done |-> {},
                err |-> got.err,
                record |-> PairsToDict(got.pairs)] :
               got \in {items_from_meta_file(f, rel_meta_path)} })

(* The loop of yield_field over the meta files of the item.  A result is   *)
(* the values yielded, the exception that ended the generator, and the     *)
(* cache, the parses and the paths gone through by the cacher.             *)
RECURSIVE YieldFieldLoop(_, _, _, _, _, _, _, _, _, _)
YieldFieldLoop(mfc, f, use_cache, rel_item_path, field_name, recursive, rel_meta_paths, gen_err, parsed, done) ==
    IF rel_meta_paths = <<>>
    THEN [vals |-> <<>>, err |-> gen_err, cache |-> mfc, parsed |-> parsed, done |-> done]
    ELSE The({
        LET parsed1 == parsed \o tc.parsed
            done1 == done \cup tc.done
            meta_dict == tc.record[rel_item_path]
            fv == FieldValues(GetField(meta_dict, field_name), recursive)
            next == YieldFieldLoop(tc.cache, f, use_cache, rel_item_path, field_name,
                                   recursive, Tail(rel_meta_paths), gen_err, parsed1, done1)
        IN  IF tc.err # "none"
            THEN [vals |-> <<>>, err |-> tc.err, cache |-> tc.cache,
                  parsed |-> parsed1, done |-> done1]
            ELSE IF rel_item_path \notin DOMAIN tc.record THEN next
            ELSE IF ~HasField(meta_dict, field_name) THEN next
            ELSE IF fv.skip THEN next
            ELSE [vals |-> fv.vals, err |-> fv.err, cache |-> tc.cache,
                  parsed |-> parsed1, done |-> done1] :
        tc \in {TempCache(mfc, f, use_cache, Head(rel_meta_paths))} })

yield_field(mfc, f, use_cache, rel_item_path, field_name, labels, recursive) ==
    IF LabelExcluded(rel_item_path, labels)
    THEN [vals |-> <<>>, err |-> "none", cache |-> mfc, parsed |-> <<>>, done |-> {}]
    ELSE The({ YieldFieldLoop(mfc, f, use_cache, rel_item_path, field_name, recursive,
                              gen.paths, gen.err, <<>>, {}) :
               gen \in {meta_files_from_item(f, rel_item_path)} })

(* paths[:max_distance]                                                    *)
CapParents(paths, max_distance) ==
    IF max_distance.some /\ max_distance.v >= 0
    THEN SubSeq(paths, 1, IF max_distance.v < Len(paths) THEN max_distance.v ELSE Len(paths))
    ELSE paths

(* The loop of yield_parent_fields over the ancestors.                     *)
RECURSIVE YieldParentLoop(_, _, _, _, _, _, _, _)
YieldParentLoop(mfc, f, use_cache, paths, field_name, labels, parsed, done) ==
    IF paths = <<>>
    THEN [vals |-> <<>>, err |-> "none", cache |-> mfc, parsed |-> parsed, done |-> done]
    ELSE The({
        LET found == r.vals # <<>>
        IN  IF r.err # "none" \/ found
            THEN [vals |-> r.vals, err |-> r.err, cache |-> r.cache,
                  parsed |-> parsed \o r.parsed, done |-> done \cup r.done]
            ELSE YieldParentLoop(r.cache, f, use_cache, Tail(paths), field_name, labels,
                                 parsed \o r.parsed, done \cup r.done) :
        r \in {yield_field(mfc, f, use_cache, Head(paths), field_name, labels, TRUE)} })

yield_parent_fields(mfc, f, use_cache, rel_item_path, field_name, max_distance, labels) ==
    YieldParentLoop(mfc, f, use_cache, CapParents(PathParents(rel_item_path), max_distance),
                    field_name, labels, <<>>, {})

(* helper of yield_child_fields, and its loop over the children.  visited *)
(* lists the items yield_field was called on, in order.                    *)
RECURSIVE ChildHelper(_, _, _, _, _, _, _)
RECURSIVE ChildLoop(_, _, _, _, _, _, _, _, _)

ChildHelper(mfc, f, use_cache, rip, md, field_name, labels) ==
    LET cn == co_norm(rip)
        names == sorted_item_names_in_dir(f, cn.rel)
        empty == [vals |-> <<>>, err |-> "none", cache |-> mfc, parsed |-> <<>>,
                  done |-> {}, visited |-> <<>>]
    IN  IF cn.err # "none" THEN [empty EXCEPT !.err = cn.err]
        ELSE IF IsDir(f, cn.rel) /\ (~md.some \/ md.v > 0)
             THEN IF names.err # "none" THEN [empty EXCEPT !.err = names.err]
                  ELSE ChildLoop(mfc, f, use_cache, cn.rel, names.names, md, field_name,
                                 labels, empty)
        ELSE empty

ChildLoop(mfc, f, use_cache, rip, child_item_names, md, field_name, labels, acc) ==
    IF child_item_names = <<>> THEN [acc EXCEPT !.cache = mfc]
    ELSE LET rel_child_path == Append(rip, Head(child_item_names))
             next_max_distance == IF md.some THEN Some(md.v - 1) ELSE Nothing
         IN  The({
             The({
                 IF r.err # "none" THEN acc1
                 ELSE IF r.vals # <<>>
                      THEN ChildLoop(r.cache, f, use_cache, rip, Tail(child_item_names), md,
                                     field_name, labels, acc1)
                 ELSE The({
                     The({
                         IF sub.err # "none" THEN acc2
                         ELSE ChildLoop(sub.cache, f, use_cache, rip, Tail(child_item_names),
                                        md, field_name, labels, acc2) :
                         acc2 \in {[vals |-> acc1.vals \o sub.vals, err |-> sub.err,
                                    cache |-> sub.cache,
                                    parsed |-> acc1.parsed \o sub.parsed,
                                    done |-> acc1.done \cup sub.done,
                                    visited |-> acc1.visited \o sub.visited]} }) :
                     sub \in {ChildHelper(r.cache, f, use_cache, rel_child_path,
                                          next_max_distance, field_name, labels)} }) :
                 acc1 \in {[vals |-> acc.vals \o r.vals, err |-> r.err, cache |-> r.cache,
                            parsed |-> acc.parsed \o r.parsed, done |-> acc.done \cup r.done,
                            visited |-> Append(acc.visited, rel_child_path)]} }) :
             r \in {yield_field(mfc, f, use_cache, rel_child_path, field_name, labels, TRUE)} })

yield_child_fields(mfc, f, use_cache, rel_item_path, field_name, max_distance, labels) ==
    ChildHelper(mfc, f, use_cache, rel_item_path, max_distance, field_name, labels)

-----------------------------------------------------------------------------
(* The libraries the model runs on: a tree of albums ("A1", "A2") and      *)
(* tracks ("T1"), and the documents of its meta files.                     *)

Absent == [t |-> "absent"]

Scalar(text) == [t |-> "scalar", text |-> text]

SeqDoc(items) == [t |-> "seq", items |-> items]

MapDoc(entries) == [t |-> "map", entries |-> entries]

EmptyDoc == [t |-> "empty"]

(* The field the queries ask for, and another one.                         *)
FIELD == "f"
OTHER_FIELD == "g"

PathText(p) ==
    CASE p = <<>> -> "."
      [] p = <<"A1">> -> "A1"
      [] p = <<"A2">> -> "A2"
      [] p = <<"A1", "T1">> -> "A1/T1"
      [] p = <<"A2", "T1">> -> "A2/T1"
      [] OTHER -> "?"

(* The values the test helpers write: each names its source and target.    *)
(* A text is the tuple of its pieces.                                      *)
gen_self_meta_str_val(p) == <<"self metadata for target", PathText(p)>>

gen_item_meta_str_val(p) == <<"item metadata for target", PathText(p)>>

(* Metadata blocks: with the field (a string) or without it.               *)
BlockStr(text) == MapDoc(<< <<FIELD, Scalar(text)>>, <<OTHER_FIELD, Scalar(<<"other">>)>> >>)

BlockWithout == MapDoc(<< <<OTHER_FIELD, Scalar(<<"other">>)>> >>)

SelfPath(dir) == Append(dir, SELF_META_FN)

ItemPath(dir) == Append(dir, ITEM_META_FN)

(* A file system from its directories, its item files and an assignment of *)
(* documents (or Absent) to meta file paths.                               *)
MkFs(dirs, files, docs) ==
    [dirs |-> dirs, files |-> files,
     meta |-> [m \in {x \in DOMAIN docs : docs[x].t # "absent"} |-> docs[m]]]

(* The documents of the self file of a directory.                          *)
SelfDocs(dir) ==
    { Absent,
      SeqDoc(<<Scalar(<<"not a mapping">>)>>),
      BlockWithout,
      BlockStr(gen_self_meta_str_val(dir)) }

(* The blocks an item file may hold for an item.                           *)
ItemBlocks(item) == { BlockWithout, BlockStr(gen_item_meta_str_val(item)) }

(* The documents of the item file of a directory with one eligible name.   *)
ItemDocs1(dir, n1) ==
    { Absent, EmptyDoc }
    \cup { SeqDoc(<<b>>) : b \in ItemBlocks(Append(dir, n1)) }
    \cup { MapDoc(<< <<n1, b>> >>) : b \in ItemBlocks(Append(dir, n1)) }

(* The documents of the item file of a directory with two eligible names:  *)
(* sequences of one or two blocks, mappings keyed by one or both names.    *)
ItemDocs2(dir, n1, n2) ==
    { Absent, EmptyDoc }
    \cup { SeqDoc(<<b>>) : b \in ItemBlocks(Append(dir, n1)) }
    \cup { SeqDoc(<<b1, b2>>) : b1 \in ItemBlocks(Append(dir, n1)),
                               b2 \in ItemBlocks(Append(dir, n2)) }
    \cup { MapDoc(<< <<n2, b>> >>) : b \in ItemBlocks(Append(dir, n2)) }
    \cup { MapDoc(<< <<n2, b2>>, <<n1, b1>> >>) : b1 \in ItemBlocks(Append(dir, n1)),
                                                  b2 \in ItemBlocks(Append(dir, n2)) }

-----------------------------------------------------------------------------
(* The meta cacher as a state machine: a cacher made by gen_meta_cacher    *)
(* over a library that does not change, and the calls made on it.          *)
(* ensured is a history variable: the meta file paths that a call of       *)
(* cache_meta_files has gone through without an exception since they were  *)
(* last cleared.  last records the last call: its arguments, the meta      *)
(* files it parsed (the parse-count probe) and how it ended.               *)

CacheDirs == {<<>>, <<"A1">>}
CacheFiles == {<<"A2">>, <<"A1", "T1">>}

CacheLibraries ==
    { MkFs(CacheDirs, CacheFiles,
           [m \in {SelfPath(<<>>), SelfPath(<<"A1">>), ItemPath(<<>>), ItemPath(<<"A1">>)} |->
               CASE m = SelfPath(<<>>) -> sr
                 [] m = SelfPath(<<"A1">>) -> sa
                 [] m = ItemPath(<<>>) -> ir
                 [] OTHER -> ia]) :
        sr \in {Absent, BlockStr(gen_self_meta_str_val(<<>>))},
        sa \in {SeqDoc(<<Scalar(<<"not a mapping">>)>>), BlockStr(gen_self_meta_str_val(<<"A1">>))},
        ir \in {SeqDoc(<<BlockStr(gen_item_meta_str_val(<<"A1">>)),
                         BlockStr(gen_item_meta_str_val(<<"A2">>))>>),
                MapDoc(<< <<"A1", BlockWithout>> >>)},
        ia \in {EmptyDoc,
                SeqDoc(<<BlockStr(gen_item_meta_str_val(<<"A1", "T1">>))>>),
                MapDoc(<< <<"T", BlockWithout>> >>)} }

(* The meta file paths and item paths the calls are made with.             *)
MetaPathsOf(f) == {Append(d, n) : d \in f.dirs, n \in {SELF_META_FN, ITEM_META_FN}}

ItemPathsOf(f) == f.dirs \cup f.files

(* An iterable over the paths of a set, in the order of PathOrder.         *)
PathOrder ==
    << SelfPath(<<>>), ItemPath(<<>>), <<"A1">>, SelfPath(<<"A1">>), ItemPath(<<"A1">>),
       <<"A1", "T1">>, <<"A2">>, SelfPath(<<"A2">>), ItemPath(<<"A2">>), <<"A2", "T1">> >>

SeqOfPaths(S) == SelectSeq(PathOrder, LAMBDA x : x \in S)

(* The iterables of meta file paths the calls are made with: one path (on *)
(* disk or not), or every meta file on disk.                               *)
MetaBatchesOf(f) == {<<m>> : m \in MetaPathsOf(f)} \cup {SeqOfPaths(DOMAIN f.meta)}

NoQuery == [item |-> <<>>, labels |-> Nothing, max_distance |-> Nothing]

NoCall == [op |-> "none", paths |-> <<>>, force |-> FALSE, parsed |-> <<>>,
           vals |-> <<>>, visited |-> <<>>, err |-> "none"]

Call(op, paths, force, parsed, vals, err) ==
    [op |-> op, paths |-> paths, force |-> force, parsed |-> parsed,
     vals |-> vals, visited |-> <<>>, err |-> err]

Init ==
    /\ fs \in CacheLibraries
    /\ useCache = TRUE
    /\ cache = EmptyCache
    /\ ensured = {}
    /\ query = NoQuery
    /\ last = NoCall

CacheMetaFiles(P, force) ==
    \E r \in {cache_meta_files(cache, fs, P, force)} :
        /\ cache' = r.cache
        /\ ensured' = ensured \cup r.done
        /\ last' = Call("cache_meta_files", P, force, r.parsed, <<>>, r.err)
        /\ UNCHANGED <<fs, useCache, query>>

CacheItemFile(i, force) ==
    \E r \in {cache_item_files(cache, fs, <<i>>, force)} :
        /\ cache' = r.cache
        /\ ensured' = ensured \cup r.done
        /\ last' = Call("cache_item_files", <<i>>, force, r.parsed, <<>>, r.err)
        /\ UNCHANGED <<fs, useCache, query>>

ClearMetaFiles(P) ==
    LET r == clear_meta_files(cache, P)
    IN  /\ cache' = r.cache
        /\ ensured' = ensured \ Range(P)
        /\ last' = Call("clear_meta_files", P, FALSE, <<>>, <<>>, r.err)
        /\ UNCHANGED <<fs, useCache, query>>

ClearItemFile(i) ==
    LET r == clear_item_files(cache, fs, <<i>>)
    IN  /\ cache' = r.cache
        /\ ensured' = ensured \ Range(MetaFilesFromItems(fs, <<i>>).paths)
        /\ last' = Call("clear_item_files", <<i>>, FALSE, <<>>, <<>>, r.err)
        /\ UNCHANGED <<fs, useCache, query>>

ClearAll ==
    /\ cache' = clear_all(cache).cache
    /\ ensured' = {}
    /\ last' = Call("clear_all", <<>>, FALSE, <<>>, <<>>, "none")
    /\ UNCHANGED <<fs, useCache, query>>

GetMetaFile(m) ==
    /\ last' = Call("get_meta_file", <<m>>, FALSE, <<>>, <<>>, get_meta_file(cache, m).err)
    /\ UNCHANGED <<fs, useCache, cache, ensured, query>>

Next ==
    \/ \E P \in MetaBatchesOf(fs), force \in BOOLEAN : CacheMetaFiles(P, force)
    \/ \E i \in ItemPathsOf(fs), force \in BOOLEAN : CacheItemFile(i, force)
    \/ \E P \in MetaBatchesOf(fs) : ClearMetaFiles(P)
    \/ \E i \in ItemPathsOf(fs) : ClearItemFile(i)
    \/ ClearAll
    \/ \E m \in MetaPathsOf(fs) : GetMetaFile(m)

Spec == Init /\ [][Next]_vars

-----------------------------------------------------------------------------
(* The query context as a state machine: a context made by gen_query_ctx   *)
(* (with its own meta cacher when use_cache is set) over a library that    *)
(* does not change, and the three queries made on it with the arguments    *)
(* drawn at the start.                                                     *)

MaxDistance == 2

QueryDirs == {<<>>, <<"A1">>, <<"A2">>}
QueryFiles == {<<"A1", "T1">>, <<"A2", "T1">>}

QueryMetaPaths == {SelfPath(d) : d \in QueryDirs} \cup {ItemPath(d) : d \in QueryDirs}

QueryFs(sr, sa, sb, ir, ia, ib) ==
    MkFs(QueryDirs, QueryFiles,
         [m \in QueryMetaPaths |->
             CASE m = SelfPath(<<>>) -> sr
               [] m = SelfPath(<<"A1">>) -> sa
               [] m = SelfPath(<<"A2">>) -> sb
               [] m = ItemPath(<<>>) -> ir
               [] m = ItemPath(<<"A1">>) -> ia
               [] OTHER -> ib])

(* Every document of the two meta files of "A1", the other files absent.   *)
RichLibraries ==
    { QueryFs(Absent, sa, Absent, ir, Absent, Absent) :
        sa \in SelfDocs(<<"A1">>), ir \in ItemDocs2(<<>>, "A1", "A2") }

(* Every placement of the field over the items of the tree.                *)
TreeLibraries ==
    { QueryFs(sr, sa, sb, ir, ia, ib) :
        sr \in {Absent, BlockStr(gen_self_meta_str_val(<<>>))},
        sa \in {Absent, BlockStr(gen_self_meta_str_val(<<"A1">>)),
                SeqDoc(<<Scalar(<<"not a mapping">>)>>)},
        sb \in {Absent, BlockStr(gen_self_meta_str_val(<<"A2">>))},
        ir \in {Absent, SeqDoc(<<BlockStr(gen_item_meta_str_val(<<"A1">>)),
                                 BlockStr(gen_item_meta_str_val(<<"A2">>))>>)},
        ia \in {Absent, EmptyDoc, SeqDoc(<<BlockStr(gen_item_meta_str_val(<<"A1", "T1">>))>>)},
        ib \in {Absent, SeqDoc(<<BlockStr(gen_item_meta_str_val(<<"A2", "T1">>))>>)} }

QueryLibraries == RichLibraries \cup TreeLibraries

QueryItems == {<<>>, <<"A1">>, <<"A1", "T1">>}

LabelSets == {Nothing, Some({<<"A">>}), Some({<<"T">>})}

Distances == {Nothing} \cup {Some(k) : k \in 0..MaxDistance}

QueryInit ==
    /\ fs \in QueryLibraries
    /\ useCache \in BOOLEAN
    /\ cache = EmptyCache
    /\ ensured = {}
    /\ query \in [item : QueryItems, labels : LabelSets, max_distance : Distances]
    /\ last = NoCall

QueryCall(op, r, visited) ==
    /\ cache' = r.cache
    /\ ensured' = ensured \cup r.done
    /\ last' = [op |-> op, paths |-> <<query.item>>, force |-> FALSE, parsed |-> r.parsed,
                vals |-> r.vals, visited |-> visited, err |-> r.err]
    /\ UNCHANGED <<fs, useCache, query>>

YieldField ==
    \E r \in {yield_field(cache, fs, useCache, query.item, FIELD, query.labels, TRUE)} :
        QueryCall("yield_field", r, <<query.item>>)

YieldParentFields ==
    \E r \in {yield_parent_fields(cache, fs, useCache, query.item, FIELD,
                                   query.max_distance, query.labels)} :
        QueryCall("yield_parent_fields", r, <<>>)

YieldChildFields ==
    \E r \in {yield_child_fields(cache, fs, useCache, query.item, FIELD,
                                  query.max_distance, query.labels)} :
        QueryCall("yield_child_fields", r, r.visited)

QueryNext == YieldField \/ YieldParentFields \/ YieldChildFields

QuerySpec == QueryInit /\ [][QueryNext]_vars

-----------------------------------------------------------------------------
(* Vocabulary of the properties.  The block a meta file holds for an item  *)
(* is read off its parse; a value names the role of the file it was        *)
(* written in and the item it was written for.                             *)

BlockOf(f, rel_meta_path, rel_item_path) ==
    LET record == PairsToDict(items_from_meta_file(f, rel_meta_path).pairs)
    IN  IF rel_item_path \in DOMAIN record THEN Some(record[rel_item_path]) ELSE Nothing

HoldsField(f, rel_meta_path, rel_item_path) ==
    LET block == BlockOf(f, rel_meta_path, rel_item_path)
    IN  block.some /\ HasField(block.v, FIELD)

(* The candidate meta files of an item whose block for it has the field.   *)
Holders(f, rel_item_path) ==
    SelectSeq(meta_files_from_item(f, rel_item_path).paths,
              LAMBDA m : HoldsField(f, m, rel_item_path))

Carries(f, rel_item_path) == Holders(f, rel_item_path) # <<>>

SourceRole(val) == val.s[1]

TargetText(val) == val.s[2]

(* The values written for the item in its first candidate file that holds  *)
(* the field.                                                              *)
CarriedValues(f, rel_item_path) ==
    LET m == Holders(f, rel_item_path)[1]
        field_val == GetField(BlockOf(f, m, rel_item_path).v, FIELD)
    IN  IF field_val.t = "seq" THEN field_val.items ELSE <<field_val>>

-----------------------------------------------------------------------------
(* C1: when the field is in the item's block in more than one candidate    *)
(* meta file, yield_field returns exactly the values of the first of them  *)
(* (the self-role file, before the item-role file), and no value of any    *)
(* other file.                                                             *)
C1_FirstFileWins ==
    (last.op = "yield_field" /\ ~LabelExcluded(query.item, query.labels)
        /\ Len(Holders(fs, query.item)) >= 2)
    => /\ last.err = "none"
       /\ last.vals = CarriedValues(fs, query.item)
       /\ PathName(Holders(fs, query.item)[1]) = SELF_META_FN
       /\ \A k \in 1..Len(last.vals) :
             /\ SourceRole(last.vals[k]) = "self metadata for target"
             /\ TargetText(last.vals[k]) = PathText(query.item)

C1_Witness ==
    /\ last.op = "yield_field"
    /\ Len(Holders(fs, query.item)) >= 2
    /\ last.vals = <<StrVal(gen_self_meta_str_val(query.item))>>
    /\ useCache

(* C2: yield_field never ends in an error for something missing: without   *)
(* the field in any candidate file the result is empty, otherwise it is    *)
(* the values of the first candidate file that holds the field.            *)
C2_MissingIsNotAnError ==
    (last.op = "yield_field" /\ ~LabelExcluded(query.item, query.labels))
    => /\ last.err = "none"
       /\ last.vals = IF Carries(fs, query.item) THEN CarriedValues(fs, query.item)
                      ELSE <<>>

(* The same without a meta cacher.                                         *)
C2_WithoutCacher ==
    ~useCache => C2_MissingIsNotAnError

(* C3: a call of cache_meta_file with force=False on a path that a call    *)
(* has gone through since it was last cleared parses nothing: it is a      *)
(* cache hit, also for a path whose parse yields no pair.                  *)
C3_SecondCallIsACacheHit ==
    [][ (last'.op = "cache_meta_files" /\ ~last'.force /\ Len(last'.paths) = 1
            /\ last'.paths[1] \in ensured)
        => last'.parsed = <<>> ]_vars

(* C4: after cache_meta_files returns normally every path it was given is  *)
(* a key of the cache, mapped to the record of its parse (the empty record *)
(* when the parse has no pair).                                            *)
C4_EnsuredPathsAreKeys ==
    (last.op = "cache_meta_files" /\ last.err = "none")
    => \A m \in Range(last.paths) :
          /\ m \in DOMAIN cache
          /\ cache[m] = PairsToDict(items_from_meta_file(fs, m).pairs)

-----------------------------------------------------------------------------
(* Vocabulary of the traversal properties.                                 *)

Ancestor(rel_item_path, d) == SubSeq(rel_item_path, 1, Len(rel_item_path) - d)

IsStrictDescendant(x, a) == Len(x) > Len(a) /\ SubSeq(x, 1, Len(a)) = a

ChildrenOf(f, dir) ==
    {Append(dir, n) : n \in Range(sorted_item_names_in_dir(f, dir).names)}

(* yield_field of the context on an item, with the arguments of the query. *)
ContextField(rel_item_path) ==
    yield_field(cache, fs, useCache, rel_item_path, FIELD, query.labels, TRUE)

HasValueOf(vals, x) == \E k \in 1..Len(vals) : TargetText(vals[k]) = PathText(x)

(* C5: yield_parent_fields returns exactly the yield_field values of the   *)
(* nearest ancestor within the cap whose yield_field result is not empty   *)
(* (nothing when there is none): the values of one level, never the        *)
(* item's own.                                                             *)
C5_NearestAncestorOnly ==
    last.op = "yield_parent_fields"
    => LET item == query.item
           md == query.max_distance
           within == {d \in 1..Len(item) : ~md.some \/ d <= md.v}
           hits == {d \in within : ContextField(Ancestor(item, d)).vals # <<>>}
       IN  /\ IF hits = {} THEN last.vals = <<>>
              ELSE LET d == CHOOSE d \in hits : \A e \in hits : d <= e
                   IN  last.vals = ContextField(Ancestor(item, d)).vals
           /\ ~HasValueOf(last.vals, item)
           /\ \A j, k \in 1..Len(last.vals) :
                 TargetText(last.vals[j]) = TargetText(last.vals[k])

C5_WithoutCacher == ~useCache => C5_NearestAncestorOnly

(* C6: with the nearest ancestor carrying the field d >= 1 levels above    *)
(* the item, yield_parent_fields returns the values of that ancestor when  *)
(* max_distance is None or at least d, and nothing when it is less than d. *)
C6_DistanceCap ==
    (last.op = "yield_parent_fields" /\ ~query.labels.some)
    => LET item == query.item
           md == query.max_distance
           ds == {d \in 1..Len(item) : Carries(fs, Ancestor(item, d))}
       IN  ds # {}
           => LET d == CHOOSE d \in ds : \A e \in ds : d <= e
              IN  last.vals = IF ~md.some \/ md.v >= d
                              THEN CarriedValues(fs, Ancestor(item, d))
                              ELSE <<>>

C6_WithoutCacher == ~useCache => C6_DistanceCap

(* C7: for every child c visited by yield_child_fields: when yield_field   *)
(* of c is not empty no value of a descendant of c is returned; when it is *)
(* empty, c is a directory and depth budget remains, the children of c are *)
(* searched; and the siblings of c are searched in both cases.             *)
C7_SkipFoundDescendIntoEmpty ==
    last.op = "yield_child_fields"
    => \A c \in Range(last.visited) :
          LET r == ContextField(c)
              md == query.max_distance
              depth == Len(c) - Len(query.item)
          IN  /\ r.vals # <<>>
                 => \A x \in ItemPathsOf(fs) :
                       IsStrictDescendant(x, c) => ~HasValueOf(last.vals, x)
              /\ (r.vals = <<>> /\ r.err = "none" /\ IsDir(fs, c)
                     /\ (~md.some \/ md.v > depth))
                 => ChildrenOf(fs, c) \subseteq Range(last.visited)
              /\ r.err = "none"
                 => ChildrenOf(fs, PathParent(c)) \subseteq Range(last.visited)

C7_WithoutCacher == ~useCache => C7_SkipFoundDescendIntoEmpty

(* C8: yield_child_fields with max_distance n returns no value of a        *)
(* descendant more than n levels below the item, and the values of a       *)
(* descendant at depth k that carries the field, below directories that    *)
(* all lack it, are returned iff max_distance is None or at least k, in    *)
(* every sibling subtree.                                                  *)
C8_DepthBudget ==
    (last.op = "yield_child_fields" /\ ~query.labels.some)
    => LET item == query.item
           md == query.max_distance
       IN  \A x \in ItemPathsOf(fs) :
              IsStrictDescendant(x, item)
              => LET k == Len(x) - Len(item)
                     between == {y \in ItemPathsOf(fs) : /\ IsStrictDescendant(y, item)
                                                     /\ IsStrictDescendant(x, y)}
                 IN  /\ (md.some /\ k > md.v) => ~HasValueOf(last.vals, x)
                     /\ (Carries(fs, x) /\ \A y \in between : ~Carries(fs, y))
                        => IF ~md.some \/ md.v >= k
                           THEN Range(CarriedValues(fs, x)) \subseteq Range(last.vals)
                           ELSE ~HasValueOf(last.vals, x)

C8_WithoutCacher == ~useCache => C8_DepthBudget

(* The pre-order concatenation over the children of an item, in the order  *)
(* of the item ordering key.                                               *)
RECURSIVE PreOrder(_, _)
PreOrder(rip, md) ==
    IF IsDir(fs, rip) /\ (~md.some \/ md.v > 0)
    THEN LET names == sorted_item_names_in_dir(fs, rip).names
         IN  Concat([k \in 1..Len(names) |->
                       LET own == ContextField(Append(rip, names[k])).vals
                       IN  IF own # <<>> THEN own
                           ELSE PreOrder(Append(rip, names[k]),
                                         IF md.some THEN Some(md.v - 1) ELSE Nothing)])
    ELSE <<>>

(* C9: the output of yield_child_fields is the pre-order concatenation     *)
(* over the children in ordering-key order ("A1" and its subtree before    *)
(* "A2" and its subtree); it is empty for an item that is no directory.    *)
C9_PreOrderConcatenation ==
    last.op = "yield_child_fields"
    => /\ last.vals = PreOrder(query.item, query.max_distance)
       /\ ~IsDir(fs, query.item) => last.vals = <<>>
       /\ \A j, k \in 1..Len(last.vals) :
             (j < k /\ query.item = <<>>)
             => ~(/\ TargetText(last.vals[j]) \in {"A2", "A2/T1"}
                  /\ TargetText(last.vals[k]) \in {"A1", "A1/T1"})

C9_WithoutCacher == ~useCache => C9_PreOrderConcatenation

(* C10: with a label set that does not have the label of the queried item  *)
(* the three queries on that item return nothing, whatever the metadata.   *)
C10_ExcludedItemYieldsNothing ==
    (/\ last.op \in {"yield_field", "yield_parent_fields", "yield_child_fields"}
     /\ LabelExcluded(query.item, query.labels))
    => last.vals = <<>>

(* C10, as the queries behave: yield_field on an item whose label is not   *)
(* in the label set returns nothing and reads no meta file; the parent and *)
(* child queries gate each item they visit, not the queried item, so each  *)
(* value they return is of an item whose label is in the label set.        *)
C10_LabelGatesVisitedItems ==
    /\ (last.op = "yield_field" /\ query.labels.some
           /\ ~(label_extractor(query.item).some
                /\ label_extractor(query.item).v \in query.labels.v))
       => (last.vals = <<>> /\ last.err = "none" /\ last.parsed = <<>>)
    /\ (last.op \in {"yield_parent_fields", "yield_child_fields"} /\ query.labels.some)
       => \A x \in ItemPathsOf(fs) :
             HasValueOf(last.vals, x)
             => (label_extractor(x).some /\ label_extractor(x).v \in query.labels.v)

C10_Witness ==
    /\ last.op = "yield_parent_fields"
    /\ query.labels.some
    /\ ~(label_extractor(query.item).some
         /\ label_extractor(query.item).v \in query.labels.v)
    /\ last.vals # <<>>

-----------------------------------------------------------------------------
(* The path authority as a state machine: a library context and a query    *)
(* context over it, and calls made with an item path as a caller may write *)
(* it: with '..' segments, leaving the root, or absolute.  (pathlib drops   *)
(* the '.' segments when the path is made.)                                *)

MaxPathLen == 3

PathSegments == {"A1", "T1", "lib", ".."}

RECURSIVE RelPathsUpTo(_)
RelPathsUpTo(n) ==
    IF n = 0 THEN {<<>>}
    ELSE LET S == RelPathsUpTo(n - 1)
         IN  S \cup {Append(q, seg) : q \in S, seg \in PathSegments}

PathInputs == RelPathsUpTo(MaxPathLen) \cup {<<"/">> \o q : q \in RelPathsUpTo(1)}

(* Every choice of the meta files that exist.                              *)
PathLibraries ==
    { MkFs(CacheDirs, CacheFiles,
           [m \in {SelfPath(<<>>), SelfPath(<<"A1">>), ItemPath(<<>>), ItemPath(<<"A1">>)} |->
               CASE m = SelfPath(<<>>) -> sr
                 [] m = SelfPath(<<"A1">>) -> sa
                 [] m = ItemPath(<<>>) -> ir
                 [] OTHER -> ia]) :
        sr \in {Absent, BlockStr(gen_self_meta_str_val(<<>>))},
        sa \in {Absent, BlockStr(gen_self_meta_str_val(<<"A1">>))},
        ir \in {Absent, SeqDoc(<<BlockStr(gen_item_meta_str_val(<<"A1">>)),
                                 BlockStr(gen_item_meta_str_val(<<"A2">>))>>)},
        ia \in {Absent, SeqDoc(<<BlockStr(gen_item_meta_str_val(<<"A1", "T1">>))>>)} }

PathInit ==
    /\ fs \in PathLibraries
    /\ useCache \in BOOLEAN
    /\ cache = EmptyCache
    /\ ensured = {}
    /\ query \in [item : PathInputs, labels : {Nothing, Some({<<"A">>})},
                  max_distance : {Nothing, Some(0)}]
    /\ last = NoCall

(* The record of a call of the library or discovery context: out is what   *)
(* it returned or yielded, first the result of the call before it.         *)
LibCall(op, args, out, first) ==
    /\ last' = [op |-> op, paths |-> args, force |-> FALSE, parsed |-> <<>>,
                vals |-> <<>>, visited |-> <<>>, err |-> out.err, out |-> out,
                first |-> first]
    /\ UNCHANGED <<fs, useCache, cache, ensured, query>>

CoNorm == LibCall("co_norm", <<query.item>>, co_norm(query.item), None)

(* co_norm of the relative path that co_norm has just returned.            *)
CoNormAgain ==
    /\ last.op = "co_norm"
    /\ last.err = "none"
    /\ LibCall("co_norm_again", <<query.item>>, co_norm(last.out.rel), last.out)

MetaFilesFromItem ==
    LibCall("meta_files_from_item", <<query.item>>, meta_files_from_item(fs, query.item), None)

PathNext ==
    \/ CoNorm
    \/ CoNormAgain
    \/ MetaFilesFromItem
    \/ YieldField
    \/ YieldParentFields
    \/ YieldChildFields

PathSpec == PathInit /\ [][PathNext]_vars

-----------------------------------------------------------------------------
(* C11: co_norm fails with AbsoluteSubpath for every absolute input, and   *)
(* with EscapingSubpath for every relative input whose collapsed join with *)
(* the root is neither the root nor a descendant of it; for every other    *)
(* input it returns (rel, abs) where abs is the root joined with rel, abs  *)
(* is the collapsed join, and rel has no '..' segment.  The collapse is    *)
(* stated by matching: a name is kept unless a later '..' cancels it.      *)
C11_CoNormOutcome ==
    last.op = "co_norm" =>
        LET rel_sub_path == last.paths[1]
            s == Tail(RootDir) \o rel_sub_path
            Pardirs(a, b) == Cardinality({i \in a..b : s[i] = ".."})
            Kept == {k \in 1..Len(s) :
                        /\ s[k] # ".."
                        /\ \A j \in (k + 1)..Len(s) : 2 * Pardirs(k + 1, j) <= j - k}
            collapsed == [i \in 1..Cardinality(Kept) |->
                            s[CHOOSE k \in Kept : Cardinality({j \in Kept : j <= k}) = i]]
        IN  IF IsAbsolute(rel_sub_path) THEN last.out.err = "AbsoluteSubpath"
            ELSE IF ~IsPrefixOf(Tail(RootDir), collapsed)
                 THEN last.out.err = "EscapingSubpath"
            ELSE /\ last.out.err = "none"
                 /\ last.out.abs = <<"/">> \o collapsed
                 /\ last.out.abs = RootDir \o last.out.rel
                 /\ ".." \notin Range(last.out.rel)

(* A path that leaves the root and comes back into it is accepted.         *)
C11_Witness ==
    /\ last.op = "co_norm"
    /\ last.paths[1] = <<"..", "lib", "A1">>
    /\ last.out = [err |-> "none", rel |-> <<"A1">>, abs |-> <<"/", "lib", "A1">>]

(* C12: co_norm is idempotent on its relative component: co_norm of the    *)
(* relative path returned by co_norm(p) succeeds and equals co_norm(p).    *)
C12_CoNormIdempotent ==
    last.op = "co_norm_again" => last.out.err = "none" /\ last.out = last.first

C12_Witness ==
    /\ last.op = "co_norm_again"
    /\ last.paths[1] = <<"A1", "T1", "..">>
    /\ last.out.rel = <<"A1">>

(* C13: yield_field, yield_parent_fields and yield_child_fields called     *)
(* with an item path that escapes the root fail with EscapingSubpath, and  *)
(* called with an absolute path fail with AbsoluteSubpath; none of them    *)
(* returns metadata values for such a path.                                *)
C13_UnsafeItemPathIsFatal ==
    (last.op \in {"yield_field", "yield_parent_fields", "yield_child_fields"}
        /\ co_norm(query.item).err # "none")
    => (last.err = co_norm(query.item).err /\ last.vals = <<>>)

(* C15: for an item path i (a normalised path inside the root),            *)
(* meta_files_from_item(i) yields, in this order and nothing else: the     *)
(* self-role file i/<self name> iff i is an existing directory and that    *)
(* file exists, then the item-role file parent(i)/<item name> iff i is not *)
(* the root and that file exists.                                          *)
C15_MetaFilesOfItem ==
    (last.op = "meta_files_from_item" /\ co_norm(query.item) = [err |-> "none", rel |-> query.item, abs |-> RootDir \o query.item])
    => LET i == query.item
           self_role == IF IsDir(fs, i) /\ IsFile(fs, SelfPath(i))
                        THEN <<SelfPath(i)>> ELSE <<>>
           item_role == IF i # <<>> /\ IsFile(fs, ItemPath(PathParent(i)))
                        THEN <<ItemPath(PathParent(i))>> ELSE <<>>
       IN  last.out = [paths |-> self_role \o item_role, err |-> "none"]

(* Both files of a directory below the root, the self-role file first.     *)
C15_Witness ==
    /\ last.op = "meta_files_from_item"
    /\ query.item = <<"A1">>
    /\ last.out.paths = <<SelfPath(<<"A1">>), ItemPath(<<>>)>>

-----------------------------------------------------------------------------
(* The meta cacher called with relative paths as a caller may write them:  *)
(* normalised, with '..' segments that stay inside the root, or escaping.  *)

RawMetaPaths ==
    { SelfPath(<<>>), SelfPath(<<"A1", "..">>), ItemPath(<<"A1">>),
      ItemPath(<<"A1", "..", "A1">>), SelfPath(<<"..">>) }

RawItemPaths == {<<"A1">>, <<"A1", "..">>, <<"A1", "T1">>, <<"..">>}

(* The libraries whose root has a self file and whose "A1" has an item     *)
(* file with a block for its track.                                        *)
RawInit ==
    /\ Init
    /\ SelfPath(<<>>) \in DOMAIN fs.meta
    /\ fs.meta[ItemPath(<<"A1">>)].t = "seq"

RawNext ==
    \/ \E m \in RawMetaPaths, force \in BOOLEAN : CacheMetaFiles(<<m>>, force)
    \/ \E i \in RawItemPaths, force \in BOOLEAN : CacheItemFile(i, force)
    \/ \E m \in RawMetaPaths : ClearMetaFiles(<<m>>)
    \/ \E i \in RawItemPaths : ClearItemFile(i)
    \/ ClearAll

RawSpec == RawInit /\ [][RawNext]_vars

(* C14: after any sequence of cache_meta_file(s), cache_item_file(s) and   *)
(* clear calls with relative-path arguments, every key of the cache is a   *)
(* root-anchored normalised path (co_norm of the key succeeds and returns  *)
(* the key), so that no meta file is cached under two keys.                *)
C14_KeysAreNormalized ==
    /\ \A k \in DOMAIN cache : co_norm(k).err = "none" /\ co_norm(k).rel = k
    /\ \A k1, k2 \in DOMAIN cache :
          (co_norm(k1).err = "none" /\ co_norm(k1) = co_norm(k2)) => k1 = k2

-----------------------------------------------------------------------------
(* The item-role multiplexer as a state machine: a directory (the root)    *)
(* with some eligible entries, its item file and maybe its self file, and  *)
(* the calls that list, look up and assign.                                *)

MaxEntries == 2

PairNames == {"A1", "A2", "t1"}

(* Keys of a mapping payload: names, prefixes, a key that matches nothing, *)
(* keys that are no bare names, a key with a glob character, and the       *)
(* prefix of the meta file names.                                          *)
PairKeys == {"A1", "A", "t", "x", "", "A1/", "A?", "taggu"}

RECURSIVE KeySeqsUpTo(_)
KeySeqsUpTo(n) ==
    IF n = 0 THEN {<<>>}
    ELSE LET S == KeySeqsUpTo(n - 1)
         IN  S \cup UNION { {Append(ks, k) : k \in PairKeys \ Range(ks)} : ks \in S }

(* The metadata block written at a key, or at a position of a sequence.    *)
PairBlock(k) == BlockStr(<<"item metadata for target", k>>)

PairDocs ==
    { MapDoc([j \in 1..Len(ks) |-> <<ks[j], PairBlock(ks[j])>>]) : ks \in KeySeqsUpTo(MaxEntries) }
    \cup { SeqDoc([j \in 1..n |-> PairBlock(NameOrder[j])]) : n \in 0..(MaxEntries + 1) }

PairLibraries ==
    { MkFs({<<>>}, {<<n>> : n \in names},
           [m \in {SelfPath(<<>>), ItemPath(<<>>)} |-> IF m = SelfPath(<<>>) THEN sr ELSE ir]) :
        names \in SUBSET PairNames,
        sr \in {Absent, BlockWithout},
        ir \in PairDocs }

PairInit ==
    /\ fs \in PairLibraries
    /\ useCache = FALSE
    /\ cache = EmptyCache
    /\ ensured = {}
    /\ query = NoQuery
    /\ last = NoCall

FuzzyNameLookup(prefix_item_name) ==
    LibCall("fuzzy_name_lookup", <<prefix_item_name>>,
            fuzzy_name_lookup(fs, <<>>, prefix_item_name), None)

YieldItemMetaPairs ==
    LibCall("yield_item_meta_pairs", <<>>,
            yield_item_meta_pairs(fs, read_yaml_file(fs, ItemPath(<<>>)), <<>>), None)

ItemsFromMetaFile ==
    LibCall("items_from_meta_file", <<ItemPath(<<>>)>>,
            items_from_meta_file(fs, ItemPath(<<>>)), None)

PairNext ==
    \/ \E prefix_item_name \in PairKeys \cup {"*1"} : FuzzyNameLookup(prefix_item_name)
    \/ YieldItemMetaPairs
    \/ ItemsFromMetaFile

PairSpec == PairInit /\ [][PairNext]_vars

-----------------------------------------------------------------------------
(* C16: for an item-role file whose payload is a sequence of n blocks, in  *)
(* a directory with m eligible names, exactly min(n, m) pairs are yielded: *)
(* the i-th eligible name in the order of the ordering key with the i-th   *)
(* block.  When n # m these pairs are still yielded, and no other item     *)
(* receives a block.                                                       *)
C16_SequenceIsPositional ==
    (last.op \in {"yield_item_meta_pairs", "items_from_meta_file"}
        /\ fs.meta[ItemPath(<<>>)].t = "seq")
    => LET names == SelectSeq(NameOrder, LAMBDA x : <<x>> \in fs.files)
           blocks == fs.meta[ItemPath(<<>>)].items
           least == IF Len(blocks) < Len(names) THEN Len(blocks) ELSE Len(names)
       IN  /\ last.out.err = "none"
           /\ Len(last.out.pairs) = least
           /\ \A k \in 1..least :
                 last.out.pairs[k] = << <<names[k]>>, ConstructNode(blocks[k]) >>

(* Three blocks for two eligible names: two pairs.                         *)
C16_Witness ==
    /\ last.op = "yield_item_meta_pairs"
    /\ fs.meta[ItemPath(<<>>)].t = "seq"
    /\ Len(fs.meta[ItemPath(<<>>)].items) = 3
    /\ fs.files = {<<"A2">>, <<"t1">>}
    /\ Len(last.out.pairs) = 2
    /\ last.out.pairs[2][1] = <<"t1">>

(* Vocabulary of the mapping payload: the keys and blocks of the item file *)
(* of the directory, the eligible names, the keys that are bare names.     *)
MapEntries == fs.meta[ItemPath(<<>>)].entries

EligibleNames == {x \in PairNames : <<x>> \in fs.files}

IsBareName(key) ==
    /\ key \notin {"", ".", ".."}
    /\ "/" \notin Range(Chars(key))

(* The name the j-th key resolves to, when it is a bare name that          *)
(* fuzzy_name_lookup resolves to an eligible name of the directory.        *)
Resolved(j) ==
    LET lk == fuzzy_name_lookup(fs, <<>>, MapEntries[j][1])
    IN  IF IsBareName(MapEntries[j][1]) /\ lk.err = "none" /\ lk.name \in EligibleNames
        THEN Some(lk.name) ELSE Nothing

(* The pairs of the keys that resolve to a name no earlier key resolved to, *)
(* in the order of the keys.                                               *)
ClaimedPairs ==
    LET claims == {j \in 1..Len(MapEntries) :
                      /\ Resolved(j).some
                      /\ \A i \in 1..(j - 1) : Resolved(i) # Resolved(j)}
    IN  [k \in 1..Cardinality(claims) |->
            LET j == CHOOSE c \in claims : Cardinality({i \in claims : i <= c}) = k
            IN  << <<Resolved(j).v>>, ConstructNode(MapEntries[j][2]) >>]

IsMappingCall ==
    /\ last.op \in {"yield_item_meta_pairs", "items_from_meta_file"}
    /\ fs.meta[ItemPath(<<>>)].t = "map"

(* C17: for a mapping payload, exactly the pairs (dir/resolved name, block)*)
(* of the keys that are bare names and resolve to an eligible name not     *)
(* claimed by an earlier key are yielded: each item path is in at most one *)
(* pair, every yielded path is a direct child of the directory with an     *)
(* eligible name, and a key that is no bare name yields nothing and does   *)
(* not stop the processing of the keys after it.                           *)
C17_MappingAssignsResolvedKeys ==
    IsMappingCall
    => /\ last.out.pairs = ClaimedPairs
       /\ \A a, b \in 1..Len(last.out.pairs) :
             last.out.pairs[a][1] = last.out.pairs[b][1] => a = b
       /\ \A a \in 1..Len(last.out.pairs) :
             /\ Len(last.out.pairs[a][1]) = 1
             /\ last.out.pairs[a][1][1] \in EligibleNames

(* The same, for the payloads in which no lookup of a bare key fails.      *)
C17_WithoutLookupError ==
    (IsMappingCall /\ last.out.err = "none") => last.out.pairs = ClaimedPairs

(* The safety part alone: at most one pair for a path, every path a direct *)
(* child with an eligible name, every pair one of the claimed pairs.       *)
C17_YieldedPairsAreClaimed ==
    IsMappingCall
    => /\ \A a, b \in 1..Len(last.out.pairs) :
             last.out.pairs[a][1] = last.out.pairs[b][1] => a = b
       /\ \A a \in 1..Len(last.out.pairs) :
             /\ last.out.pairs[a][1][1] \in EligibleNames
             /\ last.out.pairs[a] \in Range(ClaimedPairs)

(* C18: in a mapping-style item-role file a key that matches no entry of   *)
(* the directory is skipped (a warning), never fatal: the call completes   *)
(* and yields the pairs of all the other resolvable keys.                  *)
C18_UnmatchedKeyIsSkipped ==
    (IsMappingCall
        /\ \E j \in 1..Len(MapEntries) :
              /\ IsBareName(MapEntries[j][1])
              /\ \A x \in EntryNames(fs, <<>>) :
                    ~IsPrefixOf(Chars(MapEntries[j][1]), Chars(x)))
    => (last.out.err = "none" /\ last.out.pairs = ClaimedPairs)

(* C19: a mapping key is resolved against the eligible names: when every   *)
(* key of the payload is the prefix of exactly one eligible name, each key *)
(* is assigned to that item (the first key of an item wins), even when     *)
(* entries that are not eligible, as the meta files of the directory,      *)
(* start with the key too.                                                 *)
C19_ResolvedAgainstEligibleNames ==
    LET StartsWith(j) == {x \in EligibleNames : IsPrefixOf(Chars(MapEntries[j][1]), Chars(x))}
    IN  (IsMappingCall
            /\ \A j \in 1..Len(MapEntries) :
                  IsBareName(MapEntries[j][1]) /\ Cardinality(StartsWith(j)) = 1)
        => /\ last.out.err = "none"
           /\ \A j \in 1..Len(MapEntries) :
                 (\A i \in 1..(j - 1) : StartsWith(i) # StartsWith(j))
                 => \E a \in 1..Len(last.out.pairs) :
                       /\ <<last.out.pairs[a][1][1]>> \in {<<x>> : x \in StartsWith(j)}
                       /\ last.out.pairs[a][2] = ConstructNode(MapEntries[j][2])

(* C20: fuzzy_name_lookup(dir, prefix) succeeds iff exactly one entry of   *)
(* the directory starts with the prefix, and returns the full name of that *)
(* entry; with no such entry or with two or more it fails with             *)
(* NonUniqueFuzzyFileLookup, which reports the number of matches.          *)
C20_UniquePrefixLookup ==
    last.op = "fuzzy_name_lookup"
    => LET starts == {x \in EntryNames(fs, <<>>) : IsPrefixOf(Chars(last.paths[1]), Chars(x))}
       IN  IF Cardinality(starts) = 1
           THEN last.out = [err |-> "none", name |-> The(starts), found |-> 1]
           ELSE last.out = [err |-> "NonUniqueFuzzyFileLookup", name |-> "",
                            found |-> Cardinality(starts)]

(* The same, for the prefixes that have no glob character.                 *)
C20_WithoutGlobCharacters ==
    (last.op = "fuzzy_name_lookup" /\ Range(Chars(last.paths[1])) \cap {"*", "?"} = {})
    => LET starts == {x \in EntryNames(fs, <<>>) : IsPrefixOf(Chars(last.paths[1]), Chars(x))}
       IN  IF Cardinality(starts) = 1
           THEN last.out = [err |-> "none", name |-> The(starts), found |-> 1]
           ELSE last.out = [err |-> "NonUniqueFuzzyFileLookup", name |-> "",
                            found |-> Cardinality(starts)]

-----------------------------------------------------------------------------
(* The meta cacher with its item lookups: the machine of Spec and the two  *)
(* read operations keyed by item path, over items on disk and one path     *)
(* that is not on disk.                                                    *)

LookupItems(f) == ItemPathsOf(f) \cup {<<"A2", "T1">>}

GetItemFile(i) ==
    \E r \in {get_item_file(cache, fs, i)} : LibCall("get_item_file", <<i>>, r, None)

ContainsItemFile(i) ==
    \E r \in {contains_item_file(cache, fs, i)} : LibCall("contains_item_file", <<i>>, r, None)

ItemNext ==
    \/ Next
    \/ \E i \in LookupItems(fs) : GetItemFile(i)
    \/ \E i \in LookupItems(fs) : ContainsItemFile(i)

ItemSpec == Init /\ [][ItemNext]_vars

(* The positions, in the candidate meta files of item i in priority order, *)
(* of the cached records that hold i.                                      *)
CachedSourcesOf(i) ==
    LET cands == meta_files_from_item(fs, i).paths
    IN  {k \in 1..Len(cands) : cands[k] \in DOMAIN cache /\ i \in DOMAIN cache[cands[k]]}

FirstOf(S) == CHOOSE k \in S : \A j \in S : k <= j

(* C21: get_item_file(i) returns the block of i from the first cached      *)
(* candidate record, in priority order, that holds i; when no cached       *)
(* source holds i the outcome is "no metadata" (None) and not an error.    *)
C21_NoSourceIsNoMetadata ==
    last.op = "get_item_file" =>
        LET i == last.paths[1]
            cands == meta_files_from_item(fs, i).paths
        IN  IF CachedSourcesOf(i) # {}
            THEN /\ last.out.err = "none"
                 /\ last.out.block = cache[cands[FirstOf(CachedSourcesOf(i))]][i]
            ELSE /\ last.out.err = "none"
                 /\ last.out.block = None

(* C21, as get_item_file behaves: the block of i from the first cached     *)
(* candidate record, in priority order, that holds i; when no cached       *)
(* source holds i the call fails with a missing-key error.                 *)
C21_NoSourceIsKeyError ==
    last.op = "get_item_file" =>
        LET i == last.paths[1]
            cands == meta_files_from_item(fs, i).paths
        IN  IF CachedSourcesOf(i) # {}
            THEN /\ last.out.err = "none"
                 /\ last.out.block = cache[cands[FirstOf(CachedSourcesOf(i))]][i]
            ELSE last.out.err = "KeyError"

(* get_item_file has been called on an item that is a candidate of a       *)
(* cached record and that no cached record holds.                          *)
C21_Witness ==
    /\ last.op = "get_item_file"
    /\ CachedSourcesOf(last.paths[1]) = {}
    /\ \E m \in DOMAIN cache : m \in Range(meta_files_from_item(fs, last.paths[1]).paths)
    /\ last.out.err = "KeyError"

-----------------------------------------------------------------------------
(* The meta cacher over a library whose meta files change on disk between  *)
(* the calls: a meta file is rewritten, made or removed by another         *)
(* program, and the cacher is asked for one meta file at a time.           *)

WriteMetaFile(m) ==
    /\ \E g \in CacheLibraries :
          /\ g # fs
          /\ \A x \in MetaPathsOf(fs) \ {m} :
                /\ x \in DOMAIN g.meta <=> x \in DOMAIN fs.meta
                /\ x \in DOMAIN fs.meta => g.meta[x] = fs.meta[x]
          /\ fs' = g
    /\ last' = Call("write_meta_file", <<m>>, FALSE, <<>>, <<>>, "none")
    /\ UNCHANGED <<useCache, cache, ensured, query>>

DiskNext ==
    \/ \E m \in MetaPathsOf(fs) : WriteMetaFile(m)
    \/ \E m \in MetaPathsOf(fs), force \in BOOLEAN : CacheMetaFiles(<<m>>, force)
    \/ \E m \in MetaPathsOf(fs) : ClearMetaFiles(<<m>>)

DiskSpec == Init /\ [][DiskNext]_vars

(* The pairs the cache holds for a meta file: none when it has no entry.   *)
CachedPairsOf(mfc, m) ==
    IF m \in DOMAIN mfc THEN {<<i, mfc[m][i]>> : i \in DOMAIN mfc[m]} ELSE {}

(* The pairs a parse of the meta file as it is on disk gives.              *)
FreshPairsOf(f, m) ==
    LET d == PairsToDict(items_from_meta_file(f, m).pairs)
    IN  {<<i, d[i]>> : i \in DOMAIN d}

(* C22: a cached record changes only through cache operations.  A change   *)
(* of the meta file on disk leaves the cache as it is; cache_meta_file(m,  *)
(* force=False) on a cached m leaves the record of m (and the cache)       *)
(* unchanged, however m has changed on disk; cache_meta_file(m, force=True)*)
(* leaves for m exactly the pairs of a fresh parse, no pair of the old     *)
(* record surviving, and touches no other record.                          *)
C22_RecordChangesOnlyByCacheCalls ==
    [][ /\ last'.op = "write_meta_file" => cache' = cache
        /\ last'.op = "cache_meta_files" =>
              LET m == last'.paths[1]
              IN  /\ (~last'.force /\ m \in DOMAIN cache) => cache' = cache
                  /\ last'.force =>
                        /\ CachedPairsOf(cache', m) = FreshPairsOf(fs, m)
                        /\ CacheWithout(cache', {m}) = CacheWithout(cache, {m})
      ]_vars

(* The cache holds for a meta file a record that differs from the file as  *)
(* it is now on disk, a call with force=False has just left it so, and a   *)
(* pair of that record is not in the file any more.                        *)
C22_Witness ==
    /\ last.op = "cache_meta_files"
    /\ ~last.force
    /\ last.paths[1] \in DOMAIN cache
    /\ CachedPairsOf(cache, last.paths[1]) \ FreshPairsOf(fs, last.paths[1]) # {}
    /\ \E p \in CachedPairsOf(cache, last.paths[1]) :
          \A q \in FreshPairsOf(fs, last.paths[1]) : q[1] # p[1]

(* C23: clear_meta_files(S) removes exactly the keys of S, ignores without *)
(* error the keys of S that are not cached, and leaves every other key and *)
(* its record unchanged; get_meta_file on a key that is not cached fails   *)
(* with a missing-key error, and get_meta_file never modifies the cache.   *)
C23_ClearAndGetFrame ==
    [][ /\ last'.op = "clear_meta_files" =>
              /\ last'.err = "none"
              /\ DOMAIN cache' = (DOMAIN cache) \ Range(last'.paths)
              /\ \A k \in DOMAIN cache' : cache'[k] = cache[k]
        /\ last'.op = "get_meta_file" =>
              /\ cache' = cache
              /\ last'.err = (IF last'.paths[1] \in DOMAIN cache THEN "none" ELSE "KeyError")
      ]_vars

(* clear_meta_files has been called with one path and has left records in  *)
(* the cache.                                                              *)
C23_Witness ==
    /\ last.op = "clear_meta_files"
    /\ Len(last.paths) = 1
    /\ Cardinality(DOMAIN cache) >= 2

(* The item is described by one of its candidate meta files as they are on *)
(* disk.                                                                   *)
DescribedOnDisk(i) ==
    \E m \in Range(meta_files_from_item(fs, i).paths) :
        \E p \in FreshPairsOf(fs, m) : p[1] = co_norm(i).rel

ItemClearedAndFound ==
    /\ (last.op = "clear_item_files" /\ last.err = "none") =>
          \A i \in Range(last.paths) :
              /\ \A m \in DOMAIN cache : co_norm(i).rel \notin DOMAIN cache[m]
              /\ ~contains_item_file(cache, fs, i).found
    /\ (last.op = "cache_item_files" /\ last.err = "none") =>
          \A i \in Range(last.paths) :
              DescribedOnDisk(i) => contains_item_file(cache, fs, i).found

(* C24: in any sequence of cache operations, after clear_item_files(S)     *)
(* returns no item path of S appears in any record still held by the cache *)
(* and contains_item_file(i) is false for every i of S; after              *)
(* cache_item_file(i) for an item described by one of its candidate files  *)
(* contains_item_file(i) is true.                                          *)
C24_ItemClearedAndFound == ItemClearedAndFound

(* C24 while every cache key and every path of the call is normalised: it  *)
(* holds there.                                                            *)
C24_WithNormalizedPaths ==
    ( /\ \A m \in DOMAIN cache : co_norm(m).rel = m
      /\ \A i \in Range(last.paths) : co_norm(i).rel = i ) => ItemClearedAndFound

-----------------------------------------------------------------------------
(* The cache of the discoverer, keyed by item path, and its invalidation:  *)
(* clear_cache_branch over a collection of paths, and clear_cache.         *)

(* to_delete that compares the key alone with the paths.                   *)
to_delete_exact(p, paths) == p \in paths

(* to_delete: the key or one of its parents is among the paths.            *)
to_delete(p, paths) == (Range(<<p>> \o PathParents(p)) \cap paths) # {}

clear_cache_branch(meta_cache, paths) ==
    CacheWithout(meta_cache, {key \in DOMAIN meta_cache : to_delete(key, Range(paths))})

BranchKeys ==
    { <<>>, <<"A1">>, <<"A2">>, <<"A1", "T1">>, <<"A1", "A2">>, <<"A2", "T1">>,
      <<"A1", "T1", "A1">> }

(* The paths a branch is named by: the keys and a path that is the name of *)
(* keys and the ancestor of none.                                          *)
BranchPaths == BranchKeys \cup {<<"T1">>}

BranchInit ==
    /\ fs = MkFs(CacheDirs, CacheFiles, <<>>)
    /\ useCache = TRUE
    /\ \E K \in SUBSET BranchKeys :
          cache \in [K -> {gen_self_meta_str_val(<<>>), gen_item_meta_str_val(<<>>)}]
    /\ ensured = {}
    /\ query = NoQuery
    /\ last = NoCall

ClearCacheBranch(P) ==
    /\ cache' = clear_cache_branch(cache, P)
    /\ last' = Call("clear_cache_branch", P, FALSE, <<>>, <<>>, "none")
    /\ UNCHANGED <<fs, useCache, ensured, query>>

ClearCache ==
    /\ cache' = EmptyCache
    /\ last' = Call("clear_cache", <<>>, FALSE, <<>>, <<>>, "none")
    /\ UNCHANGED <<fs, useCache, ensured, query>>

BranchNext ==
    \/ \E p, q \in BranchPaths : ClearCacheBranch(<<p, q>>)
    \/ ClearCacheBranch(<<>>)
    \/ ClearCache

BranchSpec == BranchInit /\ [][BranchNext]_vars

(* C25: invalidating the cache by subtree prefix p removes every cached    *)
(* key k such that k = p or p is an ancestor of k, and leaves every other  *)
(* cached key and its record unchanged.                                    *)
C25_BranchIsRemovedAloneAndWhole ==
    [][ last'.op = "clear_cache_branch" =>
          /\ DOMAIN cache' \subseteq DOMAIN cache
          /\ \A k \in DOMAIN cache :
                IF \E p \in Range(last'.paths) : IsPrefixOf(p, k)
                THEN k \notin DOMAIN cache'
                ELSE k \in DOMAIN cache' /\ cache'[k] = cache[k]
      ]_vars

(* A branch has been cleared by a prefix that is not the root, and records *)
(* outside it are still cached, one of them under a key that ends with the *)
(* name of the prefix.                                                     *)
C25_Witness ==
    /\ last.op = "clear_cache_branch"
    /\ Range(last.paths) = {<<"A1">>}
    /\ {<<>>, <<"A2">>, <<"A2", "T1">>} \subseteq DOMAIN cache

-----------------------------------------------------------------------------
(* Scalars of a metadata block: a self file of the root whose two fields   *)
(* are scalars, bare or quoted, written as null or as something a YAML     *)
(* loader could take for a number, a boolean or a date.  The file is read  *)
(* by read_yaml_file and queried by yield_field.                           *)

NULL_REPRS == {"null", "Null", "NULL", "~"}

BSTR_REPRS == {"test", "12345", "True", "-3.14", "2017-01-01"}

(* A scalar written in quotes; Scalar is a bare one.                       *)
QuotedScalar(text) == [t |-> "scalar", text |-> text, quoted |-> TRUE]

YamlScalars ==
    {Scalar(<<s>>) : s \in NULL_REPRS \cup BSTR_REPRS}
    \cup {QuotedScalar(<<s>>) : s \in NULL_REPRS \cup BSTR_REPRS}

YamlLibraries ==
    { MkFs({<<>>}, {}, [m \in {SelfPath(<<>>)} |->
                           MapDoc(<< <<FIELD, v>>, <<OTHER_FIELD, w>> >>)]) :
        v \in YamlScalars, w \in YamlScalars }

YamlInit ==
    /\ fs \in YamlLibraries
    /\ useCache \in BOOLEAN
    /\ cache = EmptyCache
    /\ ensured = {}
    /\ query = NoQuery
    /\ last = NoCall

ReadYamlFile ==
    \E data \in {read_yaml_file(fs, SelfPath(<<>>))} :
        LibCall("read_yaml_file", <<SelfPath(<<>>)>>, [err |-> "none", data |-> data], None)

YamlNext == ReadYamlFile \/ YieldField

YamlSpec == YamlInit /\ [][YamlNext]_vars

IsBareNull(node) == "quoted" \notin DOMAIN node /\ node.text \in {<<s>> : s \in NULL_REPRS}

(* What a scalar of a metadata block loads as: null for a bare null form,  *)
(* the string of its text for anything else.                               *)
NullOrString(node) == IF IsBareNull(node) THEN None ELSE StrVal(node.text)

(* C26: every scalar of a metadata block produced from a metadata file is  *)
(* null or a string: a bare null form (null, Null, NULL, ~) loads as null, *)
(* every other bare scalar loads as the identical string, a quoted scalar  *)
(* always loads as a string; so yield_field on a field whose value is a    *)
(* bare null yields exactly one null.                                      *)
C26_ScalarsAreNullOrString ==
    LET doc == fs.meta[SelfPath(<<>>)]
    IN  /\ last.op = "read_yaml_file" =>
              \A k \in 1..Len(doc.entries) :
                  last.out.data.entries[k] = <<doc.entries[k][1], NullOrString(doc.entries[k][2])>>
        /\ (last.op = "yield_field" /\ IsBareNull(GetField(doc, FIELD))) =>
              /\ last.err = "none"
              /\ last.vals = <<None>>

(* C26 for the scalars that are not bare null forms: they load as the      *)
(* string of their text and yield_field yields that string.                *)
C26_WithoutBareNulls ==
    LET doc == fs.meta[SelfPath(<<>>)]
    IN  /\ last.op = "read_yaml_file" =>
              \A k \in 1..Len(doc.entries) :
                  ~IsBareNull(doc.entries[k][2]) =>
                      last.out.data.entries[k] = <<doc.entries[k][1], StrVal(doc.entries[k][2].text)>>
        /\ (last.op = "yield_field" /\ ~IsBareNull(GetField(doc, FIELD))) =>
              /\ last.err = "none"
              /\ last.vals = <<StrVal(GetField(doc, FIELD).text)>>

-----------------------------------------------------------------------------
(* field_flattener, as a function of a field value, a flatten limit (None  *)
(* or an integer) and a mapping iteration style.  A key of a mapping is a  *)
(* string; a (key, value) pair is a tuple, which is a sequence.            *)

mis_keys(d) == [k \in 1..Len(d.entries) |-> StrVal(<<d.entries[k][1]>>)]

mis_vals(d) == [k \in 1..Len(d.entries) |-> d.entries[k][2]]

mis_pairs(d) ==
    [k \in 1..Len(d.entries) |->
        [t |-> "seq", items |-> <<StrVal(<<d.entries[k][1]>>), d.entries[k][2]>>]]

MappingIterStyle(style, d) ==
    CASE style = "KEYS" -> mis_keys(d)
      [] style = "VALS" -> mis_vals(d)
      [] OTHER -> mis_pairs(d)

(* A limit that is handed down as it is.                                   *)
same_fl(flatten_limit) == flatten_limit

next_fl(flatten_limit) ==
    IF flatten_limit.some THEN Some(flatten_limit.v - 1) ELSE Nothing

RECURSIVE field_flattener(_, _, _)
field_flattener(field_value, flatten_limit, mapping_iter_style) ==
    CASE field_value.t = "None" -> <<None>>
      [] field_value.t = "str" -> <<field_value>>
      [] field_value.t = "seq" ->
            IF ~flatten_limit.some \/ flatten_limit.v > 0
            THEN Concat([k \in 1..Len(field_value.items) |->
                            field_flattener(field_value.items[k], next_fl(flatten_limit),
                                            mapping_iter_style)])
            ELSE <<field_value>>
      [] field_value.t = "map" ->
            IF ~flatten_limit.some \/ flatten_limit.v > 0
            THEN Concat([k \in 1..Len(field_value.entries) |->
                            field_flattener(MappingIterStyle(mapping_iter_style, field_value)[k],
                                            next_fl(flatten_limit), mapping_iter_style)])
            ELSE <<field_value>>
      [] OTHER -> <<>>

MaxNest == 2
MaxFlatten == 3

FlatLeaves == {None, StrVal(<<"test">>)}

(* The field values nested at most n deep: sequences of one or two         *)
(* elements and mappings of one or two entries, one of them a leaf.        *)
RECURSIVE FlatValues(_)
FlatValues(n) ==
    IF n = 0 THEN FlatLeaves
    ELSE LET V == FlatValues(n - 1)
         IN  V \cup {[t |-> "seq", items |-> <<x>>] : x \in V}
               \cup {[t |-> "seq", items |-> <<x, l>>] : x \in V, l \in FlatLeaves}
               \cup {[t |-> "seq", items |-> <<l, x>>] : x \in V, l \in FlatLeaves}
               \cup {[t |-> "map", entries |-> << <<"key0", x>> >>] : x \in V}
               \cup {[t |-> "map", entries |-> << <<"key0", l>>, <<"key1", x>> >>] :
                        x \in V, l \in FlatLeaves}

FlatLimits == {Nothing} \cup {Some(n) : n \in 0..MaxFlatten}

FlatInit ==
    /\ fs = MkFs({<<>>}, {}, <<>>)
    /\ useCache = FALSE
    /\ cache = EmptyCache
    /\ ensured = {}
    /\ query \in [field_value : FlatValues(MaxNest), flatten_limit : FlatLimits,
                  mapping_iter_style : {"KEYS", "VALS", "PAIRS"}]
    /\ last = NoCall

FieldFlattener ==
    \E vals \in {field_flattener(query.field_value, query.flatten_limit,
                                 query.mapping_iter_style)} :
        LibCall("field_flattener", <<>>, [err |-> "none", vals |-> vals], None)

FlatNext == FieldFlattener

FlatSpec == FlatInit /\ [][FlatNext]_vars

IsLeaf(v) == v.t \in {"None", "str"}

(* The elements of a sequence, or of a mapping by the style: its keys, its *)
(* values or its (key, value) pairs.                                       *)
ElementsOf(v, style) ==
    IF v.t = "seq" THEN v.items
    ELSE [k \in 1..Len(v.entries) |->
            CASE style = "KEYS" -> StrVal(<<v.entries[k][1]>>)
              [] style = "VALS" -> v.entries[k][2]
              [] OTHER -> [t |-> "seq", items |-> <<StrVal(<<v.entries[k][1]>>), v.entries[k][2]>>]]

(* The nulls and strings of a value, in order.                             *)
RECURSIVE LeavesOf(_, _)
LeavesOf(v, style) ==
    IF IsLeaf(v) THEN <<v>>
    ELSE Concat([k \in 1..Len(ElementsOf(v, style)) |-> LeavesOf(ElementsOf(v, style)[k], style)])

(* C27: field_flattener(value, flatten_limit=n, style) yields a null or a  *)
(* string as one element for every n (a string is never split); it yields *)
(* a sequence or a mapping whole, as one element, when n = 0; for n > 0    *)
(* it yields, in order, what each element (for a mapping its keys, values  *)
(* or pairs, by the style) gives when flattened with limit n-1; with       *)
(* n = None the output holds only nulls and strings, all those of the      *)
(* value in order.                                                         *)
C27_FlattenByLimit ==
    last.op = "field_flattener" =>
        LET v == query.field_value
            n == query.flatten_limit
            st == query.mapping_iter_style
            out == last.out.vals
        IN  /\ IsLeaf(v) => out = <<v>>
            /\ (~IsLeaf(v) /\ n = Some(0)) => out = <<v>>
            /\ (~IsLeaf(v) /\ n.some /\ n # Some(0)) =>
                  out = Concat([k \in 1..Len(ElementsOf(v, st)) |->
                                   field_flattener(ElementsOf(v, st)[k], Some(n.v - 1), st)])
            /\ ~n.some =>
                  /\ \A k \in 1..Len(out) : IsLeaf(out[k])
                  /\ out = LeavesOf(v, st)

(* A mapping that holds a sequence has been flattened by pairs with a limit *)
(* that stops short of the sequence: the output holds a value that is not  *)
(* a leaf, after its key.                                                  *)
C27_Witness ==
    /\ last.op = "field_flattener"
    /\ query.mapping_iter_style = "PAIRS"
    /\ query.flatten_limit = Some(2)
    /\ query.field_value.t = "map"
    /\ \E k \in 2..Len(last.out.vals) :
          /\ ~IsLeaf(last.out.vals[k])
          /\ last.out.vals[k - 1] = StrVal(<<"key0">>)

-----------------------------------------------------------------------------
(* The meta cacher over the libraries of PairSpec, whose item file may     *)
(* hold a key that no name answers to: the item file of the root is        *)
(* cached, cleared and read.                                               *)

PartialNext ==
    \/ \E force \in BOOLEAN : CacheMetaFiles(<<ItemPath(<<>>)>>, force)
    \/ ClearMetaFiles(<<ItemPath(<<>>)>>)
    \/ GetMetaFile(ItemPath(<<>>))

PartialSpec == PairInit /\ [][PartialNext]_vars

(* C28: when cache_meta_file(m) ends with an error raised while m is being *)
(* parsed, the cache afterwards holds no entry for m (never a record of    *)
(* the pairs yielded before the failure), so a cache_meta_file(m,          *)
(* force=False) that follows parses m again.                               *)
C28_NoPartialRecord ==
    [][ /\ (last'.op = "cache_meta_files" /\ last'.err # "none") =>
              last'.paths[1] \notin DOMAIN cache'
        /\ ( /\ last.op = "cache_meta_files" /\ last.err # "none"
             /\ last'.op = "cache_meta_files" /\ ~last'.force ) =>
              last'.parsed = last'.paths
      ]_vars

(* C28 for a parse that fails before its first pair: no entry is made and  *)
(* the next call parses the file again.                                    *)
C28_FailureBeforeFirstPair ==
    [][ /\ ( /\ last'.op = "cache_meta_files" /\ last'.err # "none"
             /\ items_from_meta_file(fs, last'.paths[1]).pairs = <<>> ) =>
              last'.paths[1] \notin DOMAIN cache'
        /\ ( /\ last.op = "cache_meta_files" /\ last.err # "none"
             /\ items_from_meta_file(fs, last.paths[1]).pairs = <<>>
             /\ last'.op = "cache_meta_files" /\ ~last'.force ) =>
              last'.parsed = last'.paths
      ]_vars

-----------------------------------------------------------------------------
(* The outcome of the query that has just been made and the outcome of the *)
(* same query on a context made with use_cache=False.                      *)
SameAsUncached ==
    \E u \in {yield_field(EmptyCache, fs, FALSE, query.item, FIELD, query.labels, TRUE)} :
        /\ last.vals = u.vals
        /\ last.err = u.err

(* C29: on an unchanged filesystem, for every item path, field name and    *)
(* label set, yield_field with use_cache=True gives the same outcome (the  *)
(* same sequence of values, or the same error) as with use_cache=False, on *)
(* the first query and on every repeated query.                            *)
C29_CacheIsTransparent ==
    last.op = "yield_field" => SameAsUncached

(* C29 for an item whose candidate meta files each yield a pair when they  *)
(* are parsed: the two contexts agree.                                     *)
C29_WhenEveryMetaFileYields ==
    ( /\ last.op = "yield_field"
      /\ \A m \in Range(meta_files_from_item(fs, query.item).paths) :
            items_from_meta_file(fs, m).pairs # <<>> ) => SameAsUncached

-----------------------------------------------------------------------------
(* yield_child_fields step by step, over a directory graph that may hold a *)
(* cycle: "A1/A2" is an empty directory, or a symbolic link to the root or *)
(* to "A1".  The libraries hold self files only, so that what yield_field  *)
(* finds for a path through a link is what it finds for the directory the  *)
(* path leads to.  The context has no meta cacher.  last holds the stack   *)
(* of the helper calls that are running, the innermost last: each with its *)
(* path, its md and the child names its loop has still to take.            *)

MaxWalkDepth == 5

MkLinkedFs(dirs, files, docs, links) ==
    [dirs |-> dirs, files |-> files, meta |-> MkFs(dirs, files, docs).meta, links |-> links]

(* The directory a path leads to, every link on the way followed (what the *)
(* file system does when is_dir, iterdir or open is given the path).       *)
RECURSIVE RealPath(_, _, _)
RealPath(f, acc, rest) ==
    IF rest = <<>> THEN acc
    ELSE The({ RealPath(f, IF p \in DOMAIN f.links THEN f.links[p] ELSE p, Tail(rest)) :
               p \in {Append(acc, Head(rest))} })

WalkLibraries ==
    { MkLinkedFs({<<>>, <<"A1">>, <<"A1", "A2">>}, {<<"A1", "T1">>},
                 [m \in {SelfPath(<<>>), SelfPath(<<"A1">>), SelfPath(<<"A1", "A2">>)} |->
                     CASE m = SelfPath(<<>>) -> sr
                       [] m = SelfPath(<<"A1">>) -> sa
                       [] OTHER -> IF links = <<>> THEN sc ELSE Absent],
                 links) :
        sr \in {Absent, BlockStr(gen_self_meta_str_val(<<>>))},
        sa \in {Absent, BlockStr(gen_self_meta_str_val(<<"A1">>))},
        sc \in {Absent, BlockStr(gen_self_meta_str_val(<<"A1", "A2">>))},
        links \in {<<>>, [p \in {<<"A1", "A2">>} |-> <<>>],
                   [p \in {<<"A1", "A2">>} |-> <<"A1">>]} }

(* The md handed down as it is.                                            *)
keep_max_distance(md) == md

next_max_distance(md) == IF md.some THEN Some(md.v - 1) ELSE Nothing

(* The entry of helper(rip, md): the children its loop will take, none     *)
(* when the item is no directory or md is used up.                         *)
helper(f, rip, md) ==
    The({ The({ [rip |-> cn.rel, md |-> md,
                 todo |-> IF IsDir(f, real) /\ (~md.some \/ md.v > 0)
                          THEN sorted_item_names_in_dir(f, real).names
                          ELSE <<>>] :
                real \in {RealPath(f, <<>>, cn.rel)} }) :
          cn \in {co_norm(rip)} })

(* What yield_field gives for each item of the library.  The library does *)
(* not change during the walk and the context keeps no cache, so every     *)
(* call of the walk on one item gives this; it is kept with the library.   *)
FieldOfItems(f) ==
    [i \in f.dirs \cup f.files |->
        The({ r.vals : r \in {yield_field(EmptyCache, f, FALSE, i, FIELD, Nothing, TRUE)} })]

WithFields(f) ==
    [dirs |-> f.dirs, files |-> f.files, meta |-> f.meta, links |-> f.links,
     fields |-> FieldOfItems(f)]

WalkInit ==
    /\ fs \in {WithFields(f) : f \in WalkLibraries}
    /\ useCache = FALSE
    /\ cache = EmptyCache
    /\ ensured = {}
    /\ query \in [item : {<<>>, <<"A1">>}, labels : {Nothing}, max_distance : Distances]
    /\ last = NoCall

Top == last.stack[Len(last.stack)]

WalkStart ==
    /\ last.op = "none"
    /\ \E h \in {helper(fs, query.item, query.max_distance)} :
          last' = [op |-> "yield_child_fields", stack |-> <<h>>, vals |-> <<>>,
                   deepest |-> 1]
    /\ UNCHANGED <<fs, useCache, cache, ensured, query>>

(* The child yields the field: it is not descended into.                   *)
WalkFound ==
    /\ last.op = "yield_child_fields"
    /\ last.stack # <<>>
    /\ Top.todo # <<>>
    /\ \E top \in {Top} :
       \E vals \in {fs.fields[RealPath(fs, <<>>, Append(top.rip, Head(top.todo)))]} :
          /\ vals # <<>>
          /\ last' = [last EXCEPT !.stack[Len(last.stack)].todo = Tail(top.todo),
                                  !.vals = @ \o vals]
    /\ UNCHANGED <<fs, useCache, cache, ensured, query>>

(* The child yields nothing: helper is called on it with md - 1.           *)
WalkDescend ==
    /\ last.op = "yield_child_fields"
    /\ last.stack # <<>>
    /\ Top.todo # <<>>
    /\ Len(last.stack) < MaxWalkDepth
    /\ \E top \in {Top} :
       \E rel_child_path \in {Append(top.rip, Head(top.todo))} :
          /\ fs.fields[RealPath(fs, <<>>, rel_child_path)] = <<>>
          /\ \E h \in {helper(fs, rel_child_path, next_max_distance(top.md))} :
                last' = [last EXCEPT
                           !.stack = Append([last.stack EXCEPT
                                               ![Len(last.stack)].todo = Tail(top.todo)], h),
                           !.deepest = IF Len(last.stack) + 1 > @
                                       THEN Len(last.stack) + 1 ELSE @]
    /\ UNCHANGED <<fs, useCache, cache, ensured, query>>

(* The loop of the innermost helper is over: it returns.                   *)
WalkReturn ==
    /\ last.op = "yield_child_fields"
    /\ last.stack # <<>>
    /\ Top.todo = <<>>
    /\ last' = [last EXCEPT !.stack = SubSeq(last.stack, 1, Len(last.stack) - 1)]
    /\ UNCHANGED <<fs, useCache, cache, ensured, query>>

WalkNext == WalkStart \/ WalkFound \/ WalkDescend \/ WalkReturn

(* The caller runs the generator to its end: a step that can be taken is   *)
(* taken.                                                                  *)
WalkSpec == WalkInit /\ [][WalkNext]_vars /\ WF_vars(WalkNext)

WalkReturned == last.op = "yield_child_fields" /\ last.stack = <<>>

IsAcyclic(f) == DOMAIN f.links = {}

(* C30: yield_child_fields terminates on every finite acyclic directory    *)
(* tree for every max_distance, None included; with a finite max_distance  *)
(* n it terminates on a directory graph with a cycle as well, and the      *)
(* helper calls are never nested more than n deep below the first one.     *)
C30_ChildWalkTerminates ==
    /\ []( (last.op = "yield_child_fields" /\ query.max_distance.some) =>
              Len(last.stack) - 1 <= query.max_distance.v )
    /\ (IsAcyclic(fs) \/ query.max_distance.some) ~> WalkReturned

(* A walk over a graph with a cycle and a finite max_distance has gone     *)
(* round the cycle, has used the whole of max_distance and has returned.   *)
C30_Witness ==
    /\ ~IsAcyclic(fs)
    /\ query.max_distance = Some(MaxDistance)
    /\ WalkReturned
    /\ last.deepest = MaxDistance + 1

(* With max_distance = None on a graph with a cycle the helper calls nest  *)
(* as deep as the walk is followed.                                        *)
C30_EndlessWalk ==
    /\ ~IsAcyclic(fs)
    /\ ~query.max_distance.some
    /\ last.op = "yield_child_fields"
    /\ Len(last.stack) = MaxWalkDepth

=============================================================================
